---------------------------- MODULE Spec2Model ----------------------------
(***************************************************************************)
(* Model of the metrics service: the in-memory storage (MemStorage), the   *)
(* batch handler (UpdatesHandler) and the audit notifier (Auditor).        *)
(*                                                                         *)
(* The specifications share the storage state:                             *)
(*   Spec       one request at a time through UpdatesHandler               *)
(*   SpecPoint  sequential point operations on a fresh MemStorage          *)
(*   SpecConc   goroutines calling MemStorage concurrently, one step per   *)
(*              lock operation and per loop iteration                      *)
(*   SpecNotify calls of Auditor.Notify                                    *)
(*   SpecAlias  a caller holding and changing the maps of GetAllMetrics    *)
(*   SpecFile   SaveToFile and LoadFromFile, one call at a time            *)
(*   SpecIO     SaveToFile and LoadFromFile among concurrent writers       *)
(*   SpecRace   concurrent writers, the read and the write of += apart     *)
(*   SpecPeriodic the loop of PeriodicStore over a failing file system     *)
(*   SpecSink   goroutines calling FileSink.Send on one sink               *)
(*   SpecLocks  handlers, readers and the periodic save, lock by lock      *)
(*   SpecKinds  gauges and counters of one name, by every way of writing   *)
(*   SpecHTTP   calls of HTTPSink.Send                                     *)
(***************************************************************************)
EXTENDS Integers, Sequences, FiniteSets, TLC

(***************************************************************************)
(* Bounds of the model.                                                    *)
(***************************************************************************)
\* longest batch a client sends
MaxBatchLen == 3
\* most sinks an Auditor is built with
MaxSinks == 2
\* width of the counter type: int64 scaled down to IntBits bits
IntBits == 2
\* longest recorded sequence of point calls (SpecPoint)
MaxCalls == 3

(***************************************************************************)
(* HTTP status codes the handler answers with.                             *)
(***************************************************************************)
StatusOK == 200
StatusBadRequest == 400
StatusUnsupportedMediaType == 415
StatusInternalServerError == 500
StatusMultipleChoices == 300

(***************************************************************************)
(* Values.                                                                 *)
(***************************************************************************)
Names == {"a", "b"}
GaugeVals == {1, 2}
Deltas == {1, -1}

\* a Go pointer: nil, or a pointer to v
Nil == <<>>
Ptr(v) == <<v>>
Deref(p) == p[1]

\* int64 arithmetic wraps around (two's complement), here at IntBits bits
Modulus == 2 ^ IntBits
Wrap(x) == ((x + Modulus \div 2) % Modulus) - Modulus \div 2

\* models.Metrics
Metrics(id, mtype, value, delta) ==
    [ID |-> id, MType |-> mtype, Value |-> value, Delta |-> delta]

(***************************************************************************)
(* Go maps: a function whose domain is the set of keys present.            *)
(***************************************************************************)
EmptyMap == [n \in {} |-> 0]

\* m[k] = v
MapPut(m, k, v) == [n \in DOMAIN m \cup {k} |-> IF n = k THEN v ELSE m[n]]

\* v := m[k] of a map of numbers: the zero value when k is absent
MapGet(m, k) == IF k \in DOMAIN m THEN m[k] ELSE 0

\* m[k] += d on a map[string]int64
MapAdd(m, k, d) == MapPut(m, k, Wrap(MapGet(m, k) + d))

\* NewMemStorage
NewMemStorage == [gauges |-> EmptyMap, counters |-> EmptyMap]

VARIABLES
    gauges,       \* MemStorage.gauges
    counters,     \* MemStorage.counters
    storageKind,  \* the dynamic type behind repository.Storage
    aud,          \* the *audit.Auditor handed to UpdatesHandler
    call,         \* the request being served and what serving it did
    calls,        \* SpecPoint: the point calls made so far, in order
    ret,          \* SpecPoint: what the last GetGauge / GetCounter returned
    mu,           \* SpecConc: MemStorage.mu, its writer and its readers
    pc,           \* SpecConc: where each goroutine stands
    local,        \* SpecConc: the arguments and locals of each goroutine's call
    notified,     \* SpecNotify: the last call of Notify and the calls it made
    held,         \* SpecAlias: the two maps the caller holds, as references
    objs,         \* SpecAlias: the maps GetAllMetrics allocated
    want,         \* SpecAlias: store and snapshot as their owners left them
    disk,         \* the file at the path of SaveToFile / LoadFromFile
    fcall,        \* SpecFile: the call of SaveToFile / LoadFromFile being made
    lastSave,     \* SpecFile: the store of the last SaveToFile, if still unwritten
    iobuf,        \* SpecIO: the bytes each goroutine is writing or has read
    loaded,       \* SpecRace: the counter value each goroutine has read
    submitted,    \* SpecRace: the deltas and gauge values of the returned calls
    periodic,     \* SpecPeriodic: the ticker and the loop of PeriodicStore
    sinkMu,       \* FileSink.mu: the goroutine that holds it
    auditLog,     \* the file at FileSink.path, as the writes that reached it
    sending,      \* what each goroutine's FileSink.Send is sending and has done
    sendLog,      \* the calls of FileSink.Send that returned, in that order
    wrote,        \* SpecKinds: the names written so far and the last operation
    posted        \* SpecHTTP: the last call of HTTPSink.Send

vars == <<gauges, counters, storageKind, aud, call, calls, ret, mu, pc, local,
          notified, held, objs, want, disk, fcall, lastSave, iobuf, loaded,
          submitted, periodic, sinkMu, auditLog, sending, sendLog, wrote,
          posted>>

handlerVars == <<storageKind, aud, call>>
pointVars == <<calls, ret>>
concVars == <<mu, pc, local>>
notifyVars == <<notified>>
aliasVars == <<held, objs, want>>
fileVars == <<disk, fcall, lastSave>>
ioVars == <<iobuf>>
raceVars == <<loaded, submitted>>
periodicVars == <<periodic>>
sinkVars == <<sinkMu, auditLog, sending, sendLog>>
kindVars == <<wrote>>
httpVars == <<posted>>
restVars == <<periodicVars, sinkVars, kindVars, httpVars>>
moreVars == <<notifyVars, aliasVars, fileVars, ioVars, raceVars, restVars>>

store == [gauges |-> gauges, counters |-> counters]

(***************************************************************************)
(* MemStorage: the storage operations as functions of the store            *)
(* st = [gauges, counters]. Each runs under s.mu, so from the point of     *)
(* view of one goroutine it is a single step; SpecConc takes the lock      *)
(* steps apart.                                                            *)
(***************************************************************************)

\* mutant of UpdateGauge: the value is stored only when the name is new
UpdateGaugeIfAbsent(st, name, value) ==
    IF name \in DOMAIN st.gauges
      THEN st
      ELSE [st EXCEPT !.gauges = MapPut(@, name, value)]

\* mutant of UpdateGauge: one map for both kinds, so that the name comes to
\* be in s.counters as well
UpdateGaugeInBothMaps(st, name, value) ==
    [st EXCEPT !.gauges = MapPut(@, name, value),
               !.counters = MapAdd(@, name, 0)]

\* s.gauges[name] = value
UpdateGauge(st, name, value) ==
    [st EXCEPT !.gauges = MapPut(@, name, value)]

\* mutant of UpdateCounter: s.counters[name] = value
UpdateCounterAssign(st, name, value) ==
    [st EXCEPT !.counters = MapPut(@, name, Wrap(value))]

\* s.counters[name] += value
UpdateCounter(st, name, value) ==
    [st EXCEPT !.counters = MapAdd(@, name, value)]

\* val, ok := s.gauges[name]
GetGauge(st, name) ==
    [val |-> MapGet(st.gauges, name), ok |-> name \in DOMAIN st.gauges]

\* val, ok := s.counters[name]
GetCounter(st, name) ==
    [val |-> MapGet(st.counters, name), ok |-> name \in DOMAIN st.counters]

\* the copies GetAllMetrics builds, key by key
GetAllMetrics(st) ==
    [gauges   |-> [k \in DOMAIN st.gauges |-> st.gauges[k]],
     counters |-> [k \in DOMAIN st.counters |-> st.counters[k]]]

\* mutant of UpdateBatchStep: s.counters[met.ID] = *met.Delta
UpdateBatchStepAssign(st, met) ==
    CASE met.MType = "gauge" ->
           IF met.Value = Nil
             THEN st
             ELSE [st EXCEPT !.gauges = MapPut(@, met.ID, Deref(met.Value))]
      [] met.MType = "counter" ->
           IF met.Delta = Nil
             THEN st
             ELSE [st EXCEPT !.counters = MapPut(@, met.ID, Deref(met.Delta))]
      [] OTHER -> st

\* one iteration of UpdateBatch's loop: the switch on met.MType
UpdateBatchStep(st, met) ==
    CASE met.MType = "gauge" ->
           IF met.Value = Nil
             THEN st
             ELSE [st EXCEPT !.gauges = MapPut(@, met.ID, Deref(met.Value))]
      [] met.MType = "counter" ->
           IF met.Delta = Nil
             THEN st
             ELSE [st EXCEPT !.counters = MapAdd(@, met.ID, Deref(met.Delta))]
      [] OTHER -> st

\* mutant of UpdateBatchLoop: break, not continue, at an entry it cannot apply
RECURSIVE UpdateBatchLoopBreak(_, _, _)
UpdateBatchLoopBreak(st, batch, i) ==
    IF i > Len(batch)
      THEN st
      ELSE IF \/ batch[i].MType = "gauge" /\ batch[i].Value = Nil
              \/ batch[i].MType = "counter" /\ batch[i].Delta = Nil
        THEN st
        ELSE UpdateBatchLoopBreak(UpdateBatchStep(st, batch[i]), batch, i + 1)

\* for _, met := range batch, from index i on
RECURSIVE UpdateBatchLoop(_, _, _)
UpdateBatchLoop(st, batch, i) ==
    IF i > Len(batch)
      THEN st
      ELSE UpdateBatchLoop(UpdateBatchStep(st, batch[i]), batch, i + 1)

\* MemStorage.UpdateBatch: the store it leaves and the error it returns
UpdateBatch(st, batch) ==
    [store |-> UpdateBatchLoop(st, batch, 1), err |-> FALSE]

(***************************************************************************)
(* The storage behind the repository.Storage interface value.              *)
(*   MemStorage    implements Storage and BatchUpdater                     *)
(*   PlainStorage  implements Storage only (the same maps, point calls)    *)
(*   FailingBatch  a BatchUpdater whose UpdateBatch returns an error       *)
(***************************************************************************)
StorageKinds == {"MemStorage", "PlainStorage", "FailingBatch"}

\* bu, ok := storage.(repository.BatchUpdater)
IsBatchUpdater(kind) == kind \in {"MemStorage", "FailingBatch"}

\* bu.UpdateBatch(ctx, batch) through the interface
BatchUpdaterUpdateBatch(kind, st, batch) ==
    IF kind = "FailingBatch"
      THEN [store |-> st, err |-> TRUE]
      ELSE UpdateBatch(st, batch)

(***************************************************************************)
(* What serving one request did, in order: the calls into storage, the     *)
(* clock and the sinks.                                                    *)
(***************************************************************************)
NoEvent == [TS |-> 0, Metrics |-> <<>>, IPAddress |-> ""]

StorageCall(op, id, err) ==
    [op |-> op, sink |-> 0, id |-> id, ev |-> NoEvent, err |-> err]

ClockCall ==
    [op |-> "now", sink |-> 0, id |-> "", ev |-> NoEvent, err |-> FALSE]

SendCall(i, ev, err) ==
    [op |-> "Send", sink |-> i, id |-> "", ev |-> ev, err |-> err]

(***************************************************************************)
(* audit.Auditor. An auditor is nil or holds its sinks, 1 .. nsinks; errs  *)
(* is the set of sinks whose Send returns an error on this call.           *)
(***************************************************************************)
NilAuditor == [isNil |-> TRUE, nsinks |-> 0]

\* audit.New(sinks...)
New(n) == [isNil |-> FALSE, nsinks |-> n]

Auditors == {NilAuditor} \cup { New(n) : n \in 0 .. MaxSinks }

\* a != nil && len(a.sinks) > 0
Enabled(a) == ~a.isNil /\ a.nsinks > 0

\* mutant of NotifyLoop: the loop ends at the first Send that returns an error
RECURSIVE NotifyLoopStopOnError(_, _, _, _)
NotifyLoopStopOnError(a, i, ev, errs) ==
    IF i > a.nsinks
      THEN <<>>
      ELSE IF i \in errs
        THEN <<SendCall(i, ev, TRUE)>>
        ELSE <<SendCall(i, ev, FALSE)>> \o NotifyLoopStopOnError(a, i + 1, ev, errs)

\* for _, s := range a.sinks { _ = s.Send(ctx, ev) }, from sink i on
RECURSIVE NotifyLoop(_, _, _, _)
NotifyLoop(a, i, ev, errs) ==
    IF i > a.nsinks
      THEN <<>>
      ELSE <<SendCall(i, ev, i \in errs)>> \o NotifyLoop(a, i + 1, ev, errs)

\* mutant of Notify: no return at an auditor that is not enabled
NotifyUnguarded(a, metrics, ip, now, errs) ==
    LET ev == [TS |-> now, Metrics |-> metrics, IPAddress |-> ip]
    IN  <<ClockCall>> \o NotifyLoop(a, 1, ev, errs)

\* Auditor.Notify: the calls it makes
Notify(a, metrics, ip, now, errs) ==
    IF ~Enabled(a)
      THEN <<>>
      ELSE LET ev == [TS |-> now, Metrics |-> metrics, IPAddress |-> ip]
           IN  <<ClockCall>> \o NotifyLoop(a, 1, ev, errs)

(***************************************************************************)
(* Requests to POST /updates. decodes: whether the body is JSON that       *)
(* decodes into []models.Metrics; ip: what ClientIP(r) returns.            *)
(***************************************************************************)
ContentTypes == {"", "application/json", "text/plain"}

\* the entries clients send
Entries ==
    { Metrics("a", "gauge", Ptr(v), Nil) : v \in GaugeVals }
      \cup { Metrics("a", "gauge", Nil, Nil),
             Metrics("b", "counter", Nil, Ptr(1)),
             Metrics("b", "counter", Nil, Nil),
             Metrics("a", "histogram", Nil, Ptr(1)) }

BatchesOfLen(n) == [1 .. n -> Entries]

Batches == UNION { BatchesOfLen(n) : n \in 0 .. MaxBatchLen }

Request(ct, decodes, batch) ==
    [ct |-> ct, decodes |-> decodes, batch |-> batch, ip |-> "192.0.2.55"]

Requests ==
    { Request("application/json", TRUE, b) : b \in Batches }
      \cup { Request(ct, TRUE, b) :
               ct \in ContentTypes, b \in BatchesOfLen(0) \cup BatchesOfLen(1) }
      \cup { Request(ct, FALSE, <<>>) : ct \in ContentTypes }

\* time.Now().Unix()
Clock == {1700}

(***************************************************************************)
(* UpdatesHandler.                                                         *)
(***************************************************************************)
Result(st, status, trace) == [store |-> st, status |-> status, trace |-> trace]

\* mutant of FallbackLoop: continue, with no answer written, at an entry
\* without its field
RECURSIVE FallbackLoopContinue(_, _, _, _)
FallbackLoopContinue(st, batch, i, trace) ==
    IF i > Len(batch)
      THEN Result(st, 0, trace)
      ELSE LET m == batch[i] IN
        CASE m.MType = "gauge" ->
               IF m.Value = Nil
                 THEN FallbackLoopContinue(st, batch, i + 1, trace)
                 ELSE FallbackLoopContinue(UpdateGauge(st, m.ID, Deref(m.Value)), batch,
                                           i + 1,
                                           Append(trace, StorageCall("UpdateGauge", m.ID, FALSE)))
          [] m.MType = "counter" ->
               IF m.Delta = Nil
                 THEN FallbackLoopContinue(st, batch, i + 1, trace)
                 ELSE FallbackLoopContinue(UpdateCounter(st, m.ID, Deref(m.Delta)), batch,
                                           i + 1,
                                           Append(trace, StorageCall("UpdateCounter", m.ID, FALSE)))
          [] OTHER -> Result(st, StatusBadRequest, trace)

\* the fallback: for _, m := range batch { switch m.MType ... }, from index
\* i on; status 0 when the loop runs to its end
RECURSIVE FallbackLoop(_, _, _, _)
FallbackLoop(st, batch, i, trace) ==
    IF i > Len(batch)
      THEN Result(st, 0, trace)
      ELSE LET m == batch[i] IN
        CASE m.MType = "gauge" ->
               IF m.Value = Nil
                 THEN Result(st, StatusBadRequest, trace)
                 ELSE FallbackLoop(UpdateGauge(st, m.ID, Deref(m.Value)), batch, i + 1,
                                   Append(trace, StorageCall("UpdateGauge", m.ID, FALSE)))
          [] m.MType = "counter" ->
               IF m.Delta = Nil
                 THEN Result(st, StatusBadRequest, trace)
                 ELSE FallbackLoop(UpdateCounter(st, m.ID, Deref(m.Delta)), batch, i + 1,
                                   Append(trace, StorageCall("UpdateCounter", m.ID, FALSE)))
          [] OTHER -> Result(st, StatusBadRequest, trace)

\* lines 67-94: the batch goes to storage, through UpdateBatch when the
\* storage has it
ApplyBatch(kind, st, batch) ==
    IF IsBatchUpdater(kind)
      THEN LET r == BatchUpdaterUpdateBatch(kind, st, batch) IN
           IF r.err
             THEN Result(st, StatusInternalServerError,
                         <<StorageCall("UpdateBatch", "", r.err)>>)
             ELSE Result(r.store, 0, <<StorageCall("UpdateBatch", "", r.err)>>)
      ELSE FallbackLoop(st, batch, 1, <<>>)

\* names = append(names, m.ID) for every m of the batch
BatchNames(batch) == [i \in 1 .. Len(batch) |-> batch[i].ID]

\* lines 96-108: the audit and the answer, once storage has taken the batch
AuditAndRespond(a, applied, req, now, errs) ==
    LET names == BatchNames(req.batch)
        sent  == IF ~a.isNil /\ Enabled(a)
                   THEN Notify(a, names, req.ip, now, errs)
                   ELSE <<>>
    IN  Result(applied.store, StatusOK, applied.trace \o sent)

\* mutant of ServeHTTP: the audit runs before the outcome of storage is looked at
ServeHTTPAuditOnFailure(kind, a, st, req, now, errs) ==
    IF req.ct # "" /\ req.ct # "application/json"
      THEN Result(st, StatusUnsupportedMediaType, <<>>)
    ELSE IF ~req.decodes
      THEN Result(st, StatusBadRequest, <<>>)
    ELSE IF Len(req.batch) = 0
      THEN Result(st, StatusBadRequest, <<>>)
    ELSE LET applied == ApplyBatch(kind, st, req.batch)
             audited == AuditAndRespond(a, applied, req, now, errs)
         IN  IF applied.status # 0
               THEN Result(applied.store, applied.status, audited.trace)
               ELSE audited

\* mutant of ServeHTTP: the batch goes to storage before the Content-Type
\* and the length of the batch are looked at
ServeHTTPChecksLate(kind, a, st, req, now, errs) ==
    IF ~req.decodes
      THEN Result(st, StatusBadRequest, <<>>)
    ELSE LET applied == ApplyBatch(kind, st, req.batch) IN
         IF req.ct # "" /\ req.ct # "application/json"
           THEN Result(applied.store, StatusUnsupportedMediaType, applied.trace)
         ELSE IF Len(req.batch) = 0
           THEN Result(applied.store, StatusBadRequest, applied.trace)
         ELSE IF applied.status # 0
           THEN applied
           ELSE AuditAndRespond(a, applied, req, now, errs)

\* the handler function, from the request to the status it answers with
ServeHTTP(kind, a, st, req, now, errs) ==
    IF req.ct # "" /\ req.ct # "application/json"
      THEN Result(st, StatusUnsupportedMediaType, <<>>)
    ELSE IF ~req.decodes
      THEN Result(st, StatusBadRequest, <<>>)
    ELSE IF Len(req.batch) = 0
      THEN Result(st, StatusBadRequest, <<>>)
    ELSE LET applied == ApplyBatch(kind, st, req.batch) IN
         IF applied.status # 0
           THEN applied
           ELSE AuditAndRespond(a, applied, req, now, errs)

NoCall == <<>>

\* one request served by UpdatesHandler(storage, key, aud)
UpdatesHandler ==
    /\ call = NoCall
    /\ \E req \in Requests, now \in Clock, errs \in SUBSET (1 .. aud.nsinks) :
         LET r == ServeHTTP(storageKind, aud, store, req, now, errs) IN
           /\ gauges' = r.store.gauges
           /\ counters' = r.store.counters
           /\ call' = <<[req |-> req, pre |-> store,
                         status |-> r.status, trace |-> r.trace]>>
    /\ UNCHANGED <<storageKind, aud, pointVars, concVars, moreVars>>

\* the handler returns: the deferred r.Body.Close() runs, its locals are gone
HandlerReturn ==
    /\ call # NoCall
    /\ call' = NoCall
    /\ UNCHANGED <<gauges, counters, storageKind, aud, pointVars, concVars, moreVars>>

\* the file at a path: absent, or the bytes it holds
NoFile == [exists |-> FALSE, data |-> <<>>]
File(data) == [exists |-> TRUE, data |-> data]

\* a goroutine's locals outside any call
NoLocal ==
    [batch |-> <<>>, i |-> 0, name |-> "", value |-> 0,
     snap |-> NewMemStorage, base |-> NewMemStorage, clean |-> TRUE]

Threads == {"t1", "t2", "t3"}
NoThread == "none"

InitStorage ==
    /\ gauges = NewMemStorage.gauges
    /\ counters = NewMemStorage.counters
    /\ mu = [writer |-> NoThread, readers |-> {}]
    /\ pc = [t \in Threads |-> "idle"]
    /\ local = [t \in Threads |-> NoLocal]
    /\ calls = <<>>
    /\ ret = <<>>
    /\ call = NoCall
    /\ notified = <<>>
    /\ held = <<>>
    /\ objs = NewMemStorage
    /\ want = [store |-> NewMemStorage, snap |-> NewMemStorage]
    /\ fcall = <<>>
    /\ lastSave = <<>>
    /\ iobuf = [t \in Threads |-> <<>>]
    /\ loaded = [t \in Threads |-> 0]
    /\ submitted = [sum |-> EmptyMap, written |-> EmptyMap, calls |-> 0]
    /\ periodic = [pc |-> "range", tick |-> FALSE, last |-> "none",
                   prev |-> "none"]
    /\ sinkMu = NoThread
    /\ auditLog = <<>>
    /\ sending = [t \in Threads |-> <<>>]
    /\ sendLog = <<>>
    /\ wrote = [gauges |-> {}, counters |-> {}, last |-> <<>>, got |-> <<>>]
    /\ posted = <<>>

Init ==
    /\ InitStorage
    /\ storageKind \in StorageKinds
    /\ aud \in Auditors
    /\ disk = NoFile

Next == UpdatesHandler \/ HandlerReturn

Spec == Init /\ [][Next]_vars

(***************************************************************************)
(* Vocabulary of the properties.                                           *)
(***************************************************************************)
Served == call # NoCall
TheCall == call[1]
TheBatch == TheCall.req.batch

\* the request passed the checks of lines 49-65 and reached storage
ReachedStorage ==
    /\ Served
    /\ TheCall.req.ct \in {"", "application/json"}
    /\ TheCall.req.decodes
    /\ Len(TheBatch) > 0

\* the entry carries the field its kind requires
ValidEntry(m) ==
    \/ m.MType = "gauge" /\ m.Value # Nil
    \/ m.MType = "counter" /\ m.Delta # Nil

MissingField(m) ==
    \/ m.MType = "gauge" /\ m.Value = Nil
    \/ m.MType = "counter" /\ m.Delta = Nil

AllValid(batch) == \A i \in 1 .. Len(batch) : ValidEntry(batch[i])

\* the valid entry m as a point call
PointCall(st, m) ==
    IF m.MType = "gauge"
      THEN UpdateGauge(st, m.ID, Deref(m.Value))
      ELSE UpdateCounter(st, m.ID, Deref(m.Delta))

\* the valid entries es applied one by one, in order, by point calls
RECURSIVE OneByOne(_, _)
OneByOne(st, es) ==
    IF es = <<>> THEN st ELSE OneByOne(PointCall(st, Head(es)), Tail(es))

IsSend(e) == e.op = "Send"
IsStorageCall(e) == e.op \in {"UpdateBatch", "UpdateGauge", "UpdateCounter"}
Sends == SelectSeq(TheCall.trace, IsSend)
StorageCalls == SelectSeq(TheCall.trace, IsStorageCall)
Range(f) == { f[i] : i \in DOMAIN f }

\* C4: for a batch whose entries are all valid, MemStorage.UpdateBatch leaves
\* the store that UpdateGauge / UpdateCounter, called entry by entry in batch
\* order, leave: counter deltas of one name add up, the later of two gauge
\* values of one name stays.
C4_BatchEqualsPointCalls ==
    (ReachedStorage /\ storageKind = "MemStorage" /\ AllValid(TheBatch))
      => store = OneByOne(TheCall.pre, TheBatch)

C4_Witness ==
    /\ ReachedStorage /\ storageKind = "MemStorage" /\ AllValid(TheBatch)
    /\ Len(TheBatch) = 3
    /\ TheBatch[1].MType = "counter" /\ TheBatch[2].MType = "gauge"
    /\ TheBatch[3].MType = "gauge" /\ TheBatch[2].ID = TheBatch[3].ID
    /\ TheBatch[2].Value # TheBatch[3].Value
    /\ TheBatch[1].ID \in DOMAIN TheCall.pre.counters
    /\ TheCall.pre.counters[TheBatch[1].ID] # 0
    /\ store.gauges[TheBatch[3].ID] = Deref(TheBatch[3].Value)

\* C5: UpdatesHandler over a MemStorage answers 400, not 200, to a batch
\* holding a gauge without value or a counter without delta.
C5_MissingValueRejected ==
    (/\ ReachedStorage /\ storageKind = "MemStorage"
     /\ \E i \in 1 .. Len(TheBatch) : MissingField(TheBatch[i]))
      => TheCall.status = StatusBadRequest

\* C6: MemStorage.UpdateBatch skips the entries whose required field is
\* missing: the store it leaves is the one the valid entries alone, in batch
\* order, leave, and it returns no error.
C6_InvalidEntriesSkipped ==
    (ReachedStorage /\ storageKind = "MemStorage")
      => /\ store = OneByOne(TheCall.pre, SelectSeq(TheBatch, ValidEntry))
         /\ Len(StorageCalls) = 1
         /\ StorageCalls[1].op = "UpdateBatch" /\ ~StorageCalls[1].err

C6_Witness ==
    /\ ReachedStorage /\ storageKind = "MemStorage"
    /\ Len(TheBatch) = 3
    /\ ValidEntry(TheBatch[1]) /\ MissingField(TheBatch[2]) /\ ValidEntry(TheBatch[3])
    /\ TheBatch[1].MType = "gauge" /\ TheBatch[3].MType = "counter"
    /\ store.gauges # TheCall.pre.gauges
    /\ store.counters # TheCall.pre.counters
    /\ ~StorageCalls[1].err

\* the index of the first entry of the batch that is not valid, 0 if none
FirstInvalid(batch) ==
    IF AllValid(batch)
      THEN 0
      ELSE CHOOSE i \in 1 .. Len(batch) :
             /\ ~ValidEntry(batch[i])
             /\ \A j \in 1 .. i - 1 : ValidEntry(batch[j])

\* C7: over a storage that is no BatchUpdater, UpdatesHandler applies the
\* entries in order and stops at the first one that is not valid: the
\* entries before it are applied, it and the entries after it are not, the
\* answer is 400 and no sink is called.
C7_FallbackStopsAtFirstInvalid ==
    (ReachedStorage /\ ~IsBatchUpdater(storageKind) /\ ~AllValid(TheBatch))
      => LET k == FirstInvalid(TheBatch) IN
           /\ store = OneByOne(TheCall.pre, SubSeq(TheBatch, 1, k - 1))
           /\ Len(StorageCalls) = k - 1
           /\ \A i \in 1 .. k - 1 : StorageCalls[i].id = TheBatch[i].ID
           /\ TheCall.status = StatusBadRequest
           /\ Sends = <<>>

C7_Witness ==
    /\ ReachedStorage /\ ~IsBatchUpdater(storageKind) /\ Enabled(aud)
    /\ Len(TheBatch) = 3
    /\ TheBatch[1].MType = "gauge" /\ ValidEntry(TheBatch[1])
    /\ TheBatch[2].MType = "counter" /\ MissingField(TheBatch[2])
    /\ TheBatch[3].MType = "counter" /\ ValidEntry(TheBatch[3])
    /\ store.gauges # TheCall.pre.gauges
    /\ store.counters = TheCall.pre.counters
    /\ TheCall.status = StatusBadRequest

\* the trace positions of the sends and of the storage calls
SendAt == { i \in 1 .. Len(TheCall.trace) : IsSend(TheCall.trace[i]) }
StorageCallAt == { i \in 1 .. Len(TheCall.trace) : IsStorageCall(TheCall.trace[i]) }

\* C8: with an enabled auditor, a request answered 200 has sent one event to
\* every sink, each after the batch went to storage; a request answered 415,
\* 400 or 500 has sent none.
C8_OneEventPerSuccess ==
    (Served /\ Enabled(aud))
      => IF TheCall.status = StatusOK
           THEN /\ \A k \in 1 .. aud.nsinks :
                     Cardinality({ i \in SendAt : TheCall.trace[i].sink = k }) = 1
                /\ StorageCallAt # {}
                /\ \A i \in SendAt, j \in StorageCallAt : j < i
           ELSE /\ TheCall.status \in {StatusUnsupportedMediaType, StatusBadRequest,
                                       StatusInternalServerError}
                /\ SendAt = {}

C8_Witness ==
    /\ Served /\ Enabled(aud) /\ aud.nsinks = 2
    /\ TheCall.status = StatusOK
    /\ Len(Sends) = 2
    /\ store # TheCall.pre

\* the names of the entries of the batch that were applied to storage
AppliedNames == { TheBatch[i].ID : i \in { j \in 1 .. Len(TheBatch) : ValidEntry(TheBatch[j]) } }

\* C9: the names in the audit event of a successful batch are the names
\* that batch updated: a name is in the event exactly if an entry with that
\* name was applied to storage.
C9_EventNamesAreAppliedNames ==
    (Served /\ Enabled(aud) /\ TheCall.status = StatusOK)
      => \A i \in SendAt : Range(TheCall.trace[i].ev.Metrics) = AppliedNames

\* the storage calls a served batch takes: one UpdateBatch, or one point call
\* per entry
ExpectedStorageCalls ==
    IF IsBatchUpdater(storageKind) THEN 1 ELSE Len(TheBatch)

\* C10: whichever sinks fail, Notify calls Send once on every sink, in order
\* and with one and the same event, and the request keeps what it wrote to
\* storage and its answer 200, with no second pass over storage.
C10_SinkFailureSwallowed ==
    (/\ ReachedStorage /\ Enabled(aud)
     /\ storageKind = "MemStorage" \/ (storageKind = "PlainStorage" /\ AllValid(TheBatch)))
      => /\ Len(Sends) = aud.nsinks
         /\ \A k \in 1 .. aud.nsinks :
              /\ Sends[k].sink = k
              /\ Sends[k].ev = [TS |-> Sends[1].ev.TS,
                                Metrics |-> BatchNames(TheBatch),
                                IPAddress |-> TheCall.req.ip]
         /\ TheCall.status = StatusOK
         /\ store = OneByOne(TheCall.pre, SelectSeq(TheBatch, ValidEntry))
         /\ Len(StorageCalls) = ExpectedStorageCalls

C10_Witness ==
    /\ ReachedStorage /\ aud.nsinks = 2
    /\ Len(Sends) = 2
    /\ Sends[1].err /\ ~Sends[2].err
    /\ TheCall.status = StatusOK
    /\ store # TheCall.pre

\* C17: a request with a Content-Type that is not application/json is
\* answered 415, a request whose batch decodes to no entry is answered 400,
\* and either is turned away before storage is called: every gauge and
\* counter is as before, and neither the clock nor a sink is called.
C17_RejectedBeforeStorage ==
    /\ (Served /\ TheCall.req.ct \notin {"", "application/json"})
         => /\ TheCall.status = StatusUnsupportedMediaType
            /\ store = TheCall.pre
            /\ TheCall.trace = <<>>
    /\ (/\ Served /\ TheCall.req.ct \in {"", "application/json"}
        /\ TheCall.req.decodes /\ Len(TheBatch) = 0)
         => /\ TheCall.status = StatusBadRequest
            /\ store = TheCall.pre
            /\ TheCall.trace = <<>>

C17_Witness ==
    /\ Served /\ Enabled(aud)
    /\ TheCall.req.ct = "text/plain"
    /\ TheCall.req.decodes
    /\ Len(TheBatch) = 1 /\ ValidEntry(TheBatch[1])
    /\ TheCall.pre.gauges # EmptyMap /\ TheCall.pre.counters # EmptyMap
    /\ TheCall.status = StatusUnsupportedMediaType
    /\ store = TheCall.pre

UnknownKind(m) == m.MType \notin {"gauge", "counter"}

\* C22: a batch that reached storage and holds an entry whose kind is neither
\* gauge nor counter is not answered 200, and a batch of such entries alone
\* leaves every gauge and counter as it was.
C22_UnknownKindRejected ==
    (/\ ReachedStorage
     /\ \E i \in 1 .. Len(TheBatch) : UnknownKind(TheBatch[i]))
      => /\ TheCall.status # StatusOK
         /\ (\A i \in 1 .. Len(TheBatch) : UnknownKind(TheBatch[i]))
              => store = TheCall.pre

(***************************************************************************)
(* SpecPoint: one goroutine making point calls on a fresh MemStorage. The  *)
(* calls are recorded as they are made.                                    *)
(***************************************************************************)
PointCallRecord(op, name, value) == [op |-> op, name |-> name, value |-> value]

\* s.UpdateGauge(ctx, name, value)
CallUpdateGauge ==
    /\ Len(calls) < MaxCalls
    /\ \E name \in Names, value \in GaugeVals :
         /\ gauges' = UpdateGauge(store, name, value).gauges
         /\ counters' = UpdateGauge(store, name, value).counters
         /\ calls' = Append(calls, PointCallRecord("UpdateGauge", name, value))
    /\ ret' = <<>>
    /\ UNCHANGED <<handlerVars, concVars, moreVars>>

\* s.UpdateCounter(ctx, name, value)
CallUpdateCounter ==
    /\ Len(calls) < MaxCalls
    /\ \E name \in Names, value \in Deltas :
         /\ gauges' = UpdateCounter(store, name, value).gauges
         /\ counters' = UpdateCounter(store, name, value).counters
         /\ calls' = Append(calls, PointCallRecord("UpdateCounter", name, value))
    /\ ret' = <<>>
    /\ UNCHANGED <<handlerVars, concVars, moreVars>>

\* s.GetGauge(ctx, name)
CallGetGauge ==
    /\ \E name \in Names :
         ret' = <<[op |-> "GetGauge", name |-> name, got |-> GetGauge(store, name)]>>
    /\ UNCHANGED <<gauges, counters, calls, handlerVars, concVars, moreVars>>

\* s.GetCounter(ctx, name)
CallGetCounter ==
    /\ \E name \in Names :
         ret' = <<[op |-> "GetCounter", name |-> name, got |-> GetCounter(store, name)]>>
    /\ UNCHANGED <<gauges, counters, calls, handlerVars, concVars, moreVars>>

InitPoint ==
    /\ InitStorage
    /\ storageKind = "MemStorage"
    /\ aud = NilAuditor
    /\ disk = NoFile

NextPoint ==
    CallUpdateGauge \/ CallUpdateCounter \/ CallGetGauge \/ CallGetCounter

SpecPoint == InitPoint /\ [][NextPoint]_vars

\* the values the recorded calls of operation op passed for name, in order
ValuesOf(op, name) ==
    LET Picked(c) == c.op = op /\ c.name = name
        cs == SelectSeq(calls, Picked)
    IN  [i \in 1 .. Len(cs) |-> cs[i].value]

RECURSIVE SumSeq(_)
SumSeq(ds) == IF ds = <<>> THEN 0 ELSE Head(ds) + SumSeq(Tail(ds))

\* the rearrangements of the sequence ds
Rearranged(ds) ==
    { [i \in 1 .. Len(ds) |-> ds[p[i]]] : p \in Permutations(1 .. Len(ds)) }

\* C2 (amended): after UpdateCounter(name, d_1) ... UpdateCounter(name, d_k),
\* k >= 1, on a store without that counter, GetCounter(name) returns (s, true)
\* with s the sum d_1 + ... + d_k wrapped into the range of int64; deltas may
\* be negative and their order does not matter.
C2_CounterIsSumOfDeltas ==
    (ret # <<>> /\ ret[1].op = "GetCounter" /\ ValuesOf("UpdateCounter", ret[1].name) # <<>>)
      => \A ds \in Rearranged(ValuesOf("UpdateCounter", ret[1].name)) :
           ret[1].got = [val |-> Wrap(SumSeq(ds)), ok |-> TRUE]

C2_Witness ==
    /\ ret # <<>> /\ ret[1].op = "GetCounter"
    /\ ValuesOf("UpdateCounter", ret[1].name) = <<1, 1, -1>>
    /\ ret[1].got = [val |-> 1, ok |-> TRUE]

\* C2 as stated: the value returned is the exact sum d_1 + ... + d_k.
C2_CounterIsExactSum ==
    (ret # <<>> /\ ret[1].op = "GetCounter" /\ ValuesOf("UpdateCounter", ret[1].name) # <<>>)
      => ret[1].got = [val |-> SumSeq(ValuesOf("UpdateCounter", ret[1].name)), ok |-> TRUE]

\* C3: after UpdateGauge calls on a name, GetGauge(name) returns (v, true)
\* with v the value of the latest of them, never an earlier one.
C3_GaugeLastWriteWins ==
    (ret # <<>> /\ ret[1].op = "GetGauge" /\ ValuesOf("UpdateGauge", ret[1].name) # <<>>)
      => LET vs == ValuesOf("UpdateGauge", ret[1].name)
         IN  ret[1].got = [val |-> vs[Len(vs)], ok |-> TRUE]

C3_Witness ==
    /\ ret # <<>> /\ ret[1].op = "GetGauge"
    /\ Len(calls) = 3
    /\ ValuesOf("UpdateGauge", ret[1].name) = <<2, 1>>
    /\ calls[2].name # ret[1].name
    /\ ret[1].got = [val |-> 1, ok |-> TRUE]

(***************************************************************************)
(* SpecConc: goroutines calling MemStorage at the same time, with the      *)
(* metrics of Entries. A call's arguments are fixed when it takes the      *)
(* lock; every loop iteration and every lock operation is a step.          *)
(***************************************************************************)

\* s.mu.Lock() can return
CanLock == mu.writer = NoThread /\ mu.readers = {}

\* s.mu.RLock() can return
CanRLock == mu.writer = NoThread

Goto(t, label) == pc' = [pc EXCEPT ![t] = label]

\* mutant of UpdateBatchLock: s.mu.RLock() where s.mu.Lock() belongs
UpdateBatchRLock(t) ==
    /\ pc[t] = "idle"
    /\ CanRLock
    /\ mu' = [mu EXCEPT !.readers = @ \cup {t}]
    /\ \E batch \in Batches :
         local' = [local EXCEPT ![t] = [NoLocal EXCEPT !.batch = batch, !.i = 1]]
    /\ Goto(t, "UpdateBatch.loop")
    /\ UNCHANGED <<gauges, counters, handlerVars, pointVars, moreVars>>

\* UpdateBatch: s.mu.Lock()
UpdateBatchLock(t) ==
    /\ pc[t] = "idle"
    /\ CanLock
    /\ mu' = [mu EXCEPT !.writer = t]
    /\ \E batch \in Batches :
         local' = [local EXCEPT ![t] = [NoLocal EXCEPT !.batch = batch, !.i = 1]]
    /\ Goto(t, "UpdateBatch.loop")
    /\ UNCHANGED <<gauges, counters, handlerVars, pointVars, moreVars>>

\* UpdateBatch: one iteration of for _, met := range batch
UpdateBatchIterate(t) ==
    /\ pc[t] = "UpdateBatch.loop"
    /\ local[t].i <= Len(local[t].batch)
    /\ gauges' = UpdateBatchStep(store, local[t].batch[local[t].i]).gauges
    /\ counters' = UpdateBatchStep(store, local[t].batch[local[t].i]).counters
    /\ local' = [local EXCEPT ![t].i = @ + 1]
    /\ UNCHANGED <<mu, pc, handlerVars, pointVars, moreVars>>

\* UpdateBatch: return nil, the deferred s.mu.Unlock()
UpdateBatchUnlock(t) ==
    /\ pc[t] = "UpdateBatch.loop"
    /\ local[t].i > Len(local[t].batch)
    /\ mu' = [mu EXCEPT !.writer = NoThread]
    /\ local' = [local EXCEPT ![t] = NoLocal]
    /\ Goto(t, "idle")
    /\ UNCHANGED <<gauges, counters, handlerVars, pointVars, moreVars>>

\* UpdateGauge: s.mu.Lock()
UpdateGaugeLock(t) ==
    /\ pc[t] = "idle"
    /\ CanLock
    /\ mu' = [mu EXCEPT !.writer = t]
    /\ \E m \in Entries :
         /\ m.MType = "gauge" /\ m.Value # Nil
         /\ local' = [local EXCEPT ![t] = [NoLocal EXCEPT !.name = m.ID,
                                                          !.value = Deref(m.Value)]]
    /\ Goto(t, "UpdateGauge.write")
    /\ UNCHANGED <<gauges, counters, handlerVars, pointVars, moreVars>>

\* UpdateGauge: s.gauges[name] = value, then the deferred s.mu.Unlock()
UpdateGaugeWrite(t) ==
    /\ pc[t] = "UpdateGauge.write"
    /\ gauges' = UpdateGauge(store, local[t].name, local[t].value).gauges
    /\ counters' = UpdateGauge(store, local[t].name, local[t].value).counters
    /\ mu' = [mu EXCEPT !.writer = NoThread]
    /\ local' = [local EXCEPT ![t] = NoLocal]
    /\ Goto(t, "idle")
    /\ UNCHANGED <<handlerVars, pointVars, moreVars>>

\* UpdateCounter: s.mu.Lock()
UpdateCounterLock(t) ==
    /\ pc[t] = "idle"
    /\ CanLock
    /\ mu' = [mu EXCEPT !.writer = t]
    /\ \E m \in Entries :
         /\ m.MType = "counter" /\ m.Delta # Nil
         /\ local' = [local EXCEPT ![t] = [NoLocal EXCEPT !.name = m.ID,
                                                          !.value = Deref(m.Delta)]]
    /\ Goto(t, "UpdateCounter.write")
    /\ UNCHANGED <<gauges, counters, handlerVars, pointVars, moreVars>>

\* UpdateCounter: s.counters[name] += value, then the deferred s.mu.Unlock()
UpdateCounterWrite(t) ==
    /\ pc[t] = "UpdateCounter.write"
    /\ gauges' = UpdateCounter(store, local[t].name, local[t].value).gauges
    /\ counters' = UpdateCounter(store, local[t].name, local[t].value).counters
    /\ mu' = [mu EXCEPT !.writer = NoThread]
    /\ local' = [local EXCEPT ![t] = NoLocal]
    /\ Goto(t, "idle")
    /\ UNCHANGED <<handlerVars, pointVars, moreVars>>

\* some UpdateBatch has applied a part of its batch and not yet all of it
PartlyApplied ==
    \E u \in Threads :
      /\ pc[u] = "UpdateBatch.loop"
      /\ local[u].i > 1
      /\ local[u].i <= Len(local[u].batch)

\* GetAllMetrics: s.mu.RLock(). base and clean record the store at this
\* moment and whether a batch was partly applied in it.
GetAllMetricsRLock(t) ==
    /\ pc[t] = "idle"
    /\ CanRLock
    /\ mu' = [mu EXCEPT !.readers = @ \cup {t}]
    /\ local' = [local EXCEPT ![t] = [NoLocal EXCEPT !.base = store,
                                                      !.clean = ~PartlyApplied]]
    /\ Goto(t, "GetAllMetrics.gauges")
    /\ UNCHANGED <<gauges, counters, handlerVars, pointVars, moreVars>>

\* GetAllMetrics: for k, v := range s.gauges { gaugeCopy[k] = v }
GetAllMetricsCopyGauges(t) ==
    /\ pc[t] = "GetAllMetrics.gauges"
    /\ local' = [local EXCEPT ![t].snap.gauges = GetAllMetrics(store).gauges,
                              ![t].clean = @ /\ ~PartlyApplied]
    /\ Goto(t, "GetAllMetrics.counters")
    /\ UNCHANGED <<gauges, counters, mu, handlerVars, pointVars, moreVars>>

\* GetAllMetrics: for k, v := range s.counters { counterCopy[k] = v }
GetAllMetricsCopyCounters(t) ==
    /\ pc[t] = "GetAllMetrics.counters"
    /\ local' = [local EXCEPT ![t].snap.counters = GetAllMetrics(store).counters,
                              ![t].clean = @ /\ ~PartlyApplied]
    /\ Goto(t, "GetAllMetrics.return")
    /\ UNCHANGED <<gauges, counters, mu, handlerVars, pointVars, moreVars>>

\* GetAllMetrics: return gaugeCopy, counterCopy, the deferred s.mu.RUnlock()
GetAllMetricsRUnlock(t) ==
    /\ pc[t] = "GetAllMetrics.return"
    /\ mu' = [mu EXCEPT !.readers = @ \ {t}]
    /\ local' = [local EXCEPT ![t] = NoLocal]
    /\ Goto(t, "idle")
    /\ UNCHANGED <<gauges, counters, handlerVars, pointVars, moreVars>>

InitConc ==
    /\ InitStorage
    /\ storageKind = "MemStorage"
    /\ aud = NilAuditor
    /\ disk = NoFile

NextConc ==
    \E t \in Threads :
      \/ UpdateBatchLock(t)
      \/ UpdateBatchIterate(t)
      \/ UpdateBatchUnlock(t)
      \/ UpdateGaugeLock(t)
      \/ UpdateGaugeWrite(t)
      \/ UpdateCounterLock(t)
      \/ UpdateCounterWrite(t)
      \/ GetAllMetricsRLock(t)
      \/ GetAllMetricsCopyGauges(t)
      \/ GetAllMetricsCopyCounters(t)
      \/ GetAllMetricsRUnlock(t)

SpecConc == InitConc /\ [][NextConc]_vars

\* C1: no UpdateBatch has applied a part of its batch at any moment at which
\* GetAllMetrics reads the maps, and the snapshot it returns is the store of
\* the moment it took the read lock: of every batch the snapshot holds the
\* effect of all valid entries or of none, whatever the other goroutines do
\* meanwhile.
C1_SnapshotSeesWholeBatches ==
    \A t \in Threads :
      /\ pc[t] \in {"GetAllMetrics.gauges", "GetAllMetrics.counters",
                    "GetAllMetrics.return"}
           => local[t].clean
      /\ pc[t] = "GetAllMetrics.return"
           => local[t].snap = local[t].base

C1_Witness ==
    \E t, u \in Threads :
      /\ pc[t] = "GetAllMetrics.return"
      /\ pc[u] = "GetAllMetrics.gauges"
      /\ local[t].snap.gauges # EmptyMap
      /\ local[t].snap.counters # EmptyMap
      /\ local[u].base = local[t].snap

(***************************************************************************)
(* SpecNotify: Auditor.Notify called on every auditor, the nil one and the *)
(* one without sinks among them, with the names of a batch.                *)
(***************************************************************************)
NameLists == { BatchNames(b) : b \in Batches }

\* a.Notify(ctx, metrics, ip, now): the calls it makes are kept
CallNotify ==
    /\ \E a \in Auditors, metrics \in NameLists, now \in Clock :
         \E errs \in SUBSET (1 .. a.nsinks) :
           notified' = <<[a |-> a, metrics |-> metrics,
                          trace |-> Notify(a, metrics, "192.0.2.55", now, errs)]>>
    /\ UNCHANGED <<gauges, counters, handlerVars, pointVars, concVars,
                   aliasVars, fileVars, ioVars, raceVars, restVars>>

InitNotify ==
    /\ InitStorage
    /\ storageKind = "MemStorage"
    /\ aud = NilAuditor
    /\ disk = NoFile

NextNotify == CallNotify

SpecNotify == InitNotify /\ [][NextNotify]_vars

\* C11: Notify on a nil auditor or on an auditor without sinks does
\* nothing: it does not read the clock, builds no event and calls no sink,
\* and storage and the file are as they were.
C11_NotifyWithoutSinksIsNoOp ==
    (notified # <<>> /\ (notified[1].a.isNil \/ notified[1].a.nsinks = 0))
      => /\ notified[1].trace = <<>>
         /\ store = NewMemStorage
         /\ disk = NoFile

C11_Witness ==
    /\ notified # <<>>
    /\ notified[1].a = New(0)
    /\ Len(notified[1].metrics) = 2
    /\ notified[1].trace = <<>>

(***************************************************************************)
(* SpecAlias: a caller of GetAllMetrics keeps the two maps it was handed   *)
(* and writes to them, while the store is written to as well. A Go map     *)
(* value is a reference: the model names the map a reference points to,    *)
(* the live maps of the store or the maps GetAllMetrics made.              *)
(***************************************************************************)
MapRefs == {"s.gauges", "s.counters", "gaugeCopy", "counterCopy"}

\* delete(m, k)
MapDelete(m, k) == [n \in DOMAIN m \ {k} |-> m[n]]

\* the map behind a reference
MapAt(ref) ==
    CASE ref = "s.gauges" -> gauges
      [] ref = "s.counters" -> counters
      [] ref = "gaugeCopy" -> objs.gauges
      [] ref = "counterCopy" -> objs.counters

\* the map behind ref becomes m, every other map stays
WriteThrough(ref, m) ==
    /\ gauges' = IF ref = "s.gauges" THEN m ELSE gauges
    /\ counters' = IF ref = "s.counters" THEN m ELSE counters
    /\ objs' = [gauges   |-> IF ref = "gaugeCopy" THEN m ELSE objs.gauges,
                counters |-> IF ref = "counterCopy" THEN m ELSE objs.counters]

\* mutant of ReturnedMaps: return s.gauges, s.counters
ReturnedLiveMaps == [gauges |-> "s.gauges", counters |-> "s.counters"]

\* return gaugeCopy, counterCopy
ReturnedMaps == [gauges |-> "gaugeCopy", counters |-> "counterCopy"]

\* gauges, counters := s.GetAllMetrics(ctx), and the caller keeps them
CallGetAllMetrics ==
    /\ objs' = GetAllMetrics(store)
    /\ held' = <<ReturnedMaps>>
    /\ want' = [want EXCEPT !.snap = store]
    /\ UNCHANGED <<gauges, counters, handlerVars, pointVars, concVars,
                   notifyVars, fileVars, ioVars, raceVars, restVars>>

\* a write to the store after the snapshot was handed out: UpdateGauge or
\* UpdateCounter with a metric of Entries
StoreWrite ==
    /\ \E m \in Entries :
         /\ ValidEntry(m)
         /\ gauges' = PointCall(store, m).gauges
         /\ counters' = PointCall(store, m).counters
         /\ want' = [want EXCEPT !.store = PointCall(@, m)]
    /\ UNCHANGED <<held, objs, handlerVars, pointVars, concVars,
                   notifyVars, fileVars, ioVars, raceVars, restVars>>

\* the caller: m[k] = v on a map it was handed
CallerPut ==
    /\ held # <<>>
    /\ \/ \E k \in Names, v \in GaugeVals :
            /\ WriteThrough(held[1].gauges, MapPut(MapAt(held[1].gauges), k, v))
            /\ want' = [want EXCEPT !.snap.gauges = MapPut(@, k, v)]
       \/ \E k \in Names, v \in Deltas :
            /\ WriteThrough(held[1].counters, MapPut(MapAt(held[1].counters), k, v))
            /\ want' = [want EXCEPT !.snap.counters = MapPut(@, k, v)]
    /\ UNCHANGED <<held, handlerVars, pointVars, concVars,
                   notifyVars, fileVars, ioVars, raceVars, restVars>>

\* the caller: delete(m, k) on a map it was handed
CallerDelete ==
    /\ held # <<>>
    /\ \/ \E k \in Names :
            /\ WriteThrough(held[1].gauges, MapDelete(MapAt(held[1].gauges), k))
            /\ want' = [want EXCEPT !.snap.gauges = MapDelete(@, k)]
       \/ \E k \in Names :
            /\ WriteThrough(held[1].counters, MapDelete(MapAt(held[1].counters), k))
            /\ want' = [want EXCEPT !.snap.counters = MapDelete(@, k)]
    /\ UNCHANGED <<held, handlerVars, pointVars, concVars,
                   notifyVars, fileVars, ioVars, raceVars, restVars>>

InitAlias ==
    /\ InitStorage
    /\ storageKind = "MemStorage"
    /\ aud = NilAuditor
    /\ disk = NoFile

NextAlias == CallGetAllMetrics \/ StoreWrite \/ CallerPut \/ CallerDelete

SpecAlias == InitAlias /\ [][NextAlias]_vars

\* C12: the maps GetAllMetrics returned are copies of their own. Whatever
\* the caller puts into them or deletes from them, GetGauge, GetCounter and
\* GetAllMetrics return what the writes to the store alone left; whatever is
\* written to the store afterwards, the returned maps hold what they held
\* when returned plus the caller's own changes.
C12_SnapshotIsIndependentCopy ==
    /\ \A n \in Names :
         /\ GetGauge(store, n) = GetGauge(want.store, n)
         /\ GetCounter(store, n) = GetCounter(want.store, n)
    /\ GetAllMetrics(store) = GetAllMetrics(want.store)
    /\ held # <<>> =>
         /\ MapAt(held[1].gauges) = want.snap.gauges
         /\ MapAt(held[1].counters) = want.snap.counters

C12_Witness ==
    /\ held # <<>>
    /\ "a" \in DOMAIN gauges /\ "a" \notin DOMAIN MapAt(held[1].gauges)
    /\ "b" \notin DOMAIN gauges /\ "b" \in DOMAIN MapAt(held[1].gauges)
    /\ "b" \in DOMAIN counters /\ "b" \in DOMAIN MapAt(held[1].counters)
    /\ counters["b"] # MapAt(held[1].counters)["b"]
    /\ want.snap.counters = [n \in {"b"} |-> 1]

(***************************************************************************)
(* SaveToFile and LoadFromFile. A float64 is modelled by a number: the     *)
(* finite values are those of GaugeVals, PosInf stands for +Inf (-Inf and  *)
(* NaN fare as +Inf does in encoding/json). The bytes of a file are a      *)
(* sequence of tokens of the JSON text, so that a text cut short is a      *)
(* prefix of the text.                                                     *)
(***************************************************************************)
PosInf == 3

FloatVals == GaugeVals \cup {PosInf}

NoMetric == Metrics("", "", Nil, Nil)

\* the tokens null, [ and ], and bytes that are no JSON
Tok(t) == [t |-> t, m |-> NoMetric]

\* the text of one JSON object with the fields of m; a nil pointer is a
\* field left out or null
ObjectTok(m) == [t |-> "{}", m |-> m]

\* the text of one JSON object that has the fields of m and one more field
\* whose value is not of the type of the Go field
BadObjectTok(m) == [t |-> "{!}", m |-> m]

\* json.MarshalIndent(metrics, "", "  "): the text, or the error of
\* an unsupported value
MarshalIndent(metrics) ==
    IF \E i \in 1 .. Len(metrics) :
         metrics[i].Value # Nil /\ Deref(metrics[i].Value) = PosInf
      THEN [data |-> <<>>, err |-> TRUE]
      ELSE IF metrics = <<>>
        THEN [data |-> <<Tok("null")>>, err |-> FALSE]
        ELSE [data |-> <<Tok("[")>>
                         \o [i \in 1 .. Len(metrics) |-> ObjectTok(metrics[i])]
                         \o <<Tok("]")>>,
              err |-> FALSE]

\* the text is [ objects ]
IsArrayText(data) ==
    /\ Len(data) >= 2
    /\ data[1] = Tok("[")
    /\ data[Len(data)] = Tok("]")
    /\ \A i \in 2 .. Len(data) - 1 : data[i].t \in {"{}", "{!}"}

\* json.Unmarshal(data, &metrics): a text that is no JSON decodes nothing;
\* null is the nil slice; a value of the wrong type is skipped, the rest is
\* decoded and the error returned
Unmarshal(data) ==
    IF data = <<Tok("null")>>
      THEN [metrics |-> <<>>, err |-> FALSE]
      ELSE IF IsArrayText(data)
        THEN [metrics |-> [i \in 1 .. Len(data) - 2 |-> data[i + 1].m],
              err |-> \E i \in 2 .. Len(data) - 1 : data[i].t = "{!}"]
        ELSE [metrics |-> <<>>, err |-> TRUE]

\* what can go wrong in os.WriteFile and in os.ReadFile
WriteFaults == {"none", "open", "write", "close"}
ReadFaults == {"none", "read"}

\* os.WriteFile(filename, data, 0666): open with O_CREATE|O_TRUNC, write,
\* close. A write that fails leaves the first k tokens of data.
WriteFile(file, data, fault, k) ==
    CASE fault = "open" -> [disk |-> file, err |-> TRUE]
      [] fault = "write" -> [disk |-> File(SubSeq(data, 1, k)), err |-> TRUE]
      [] fault = "close" -> [disk |-> File(data), err |-> TRUE]
      [] OTHER -> [disk |-> File(data), err |-> FALSE]

\* os.ReadFile(filename)
ReadFile(file, fault) ==
    IF ~file.exists
      THEN [data |-> <<>>, err |-> "ErrNotExist"]
      ELSE IF fault = "read"
        THEN [data |-> <<>>, err |-> "EIO"]
        ELSE [data |-> file.data, err |-> ""]

\* the orders in which range m can visit the keys of the map m
RangeOrders(m) ==
    { o \in [1 .. Cardinality(DOMAIN m) -> DOMAIN m] :
        \A i, j \in DOMAIN o : o[i] = o[j] => i = j }

\* SaveToFile, lines 215-232: the gauges, then the counters, each map in
\* the order range visits it
SaveMetrics(st, gorder, corder) ==
    [i \in 1 .. Len(gorder) |->
       Metrics(gorder[i], "gauge", Ptr(st.gauges[gorder[i]]), Nil)]
      \o [i \in 1 .. Len(corder) |->
            Metrics(corder[i], "counter", Nil, Ptr(st.counters[corder[i]]))]

\* MemStorage.SaveToFile: the file it leaves, the error it returns and the
\* fault the file system answered with
SaveToFile(st, file, gorder, corder, fault, k) ==
    LET j == MarshalIndent(SaveMetrics(st, gorder, corder)) IN
    IF j.err
      THEN [disk |-> file, err |-> TRUE, fault |-> "none"]
      ELSE LET w == WriteFile(file, j.data, fault, k)
           IN  [disk |-> w.disk, err |-> w.err, fault |-> fault]

\* mutant of LoadStep: s.counters[mtr.ID] += *mtr.Delta
LoadStepAccumulate(st, mtr) ==
    CASE mtr.MType = "gauge" ->
           IF mtr.Value # Nil
             THEN [st EXCEPT !.gauges = MapPut(@, mtr.ID, Deref(mtr.Value))]
             ELSE st
      [] mtr.MType = "counter" ->
           IF mtr.Delta # Nil
             THEN [st EXCEPT !.counters = MapAdd(@, mtr.ID, Deref(mtr.Delta))]
             ELSE st
      [] OTHER -> st

\* LoadFromFile: one iteration of for _, mtr := range metrics
LoadStep(st, mtr) ==
    CASE mtr.MType = "gauge" ->
           IF mtr.Value # Nil
             THEN [st EXCEPT !.gauges = MapPut(@, mtr.ID, Deref(mtr.Value))]
             ELSE st
      [] mtr.MType = "counter" ->
           IF mtr.Delta # Nil
             THEN [st EXCEPT !.counters = MapPut(@, mtr.ID, Deref(mtr.Delta))]
             ELSE st
      [] OTHER -> st

\* for _, mtr := range metrics, from index i on
RECURSIVE LoadLoop(_, _, _)
LoadLoop(st, metrics, i) ==
    IF i > Len(metrics)
      THEN st
      ELSE LoadLoop(LoadStep(st, metrics[i]), metrics, i + 1)

\* mutant of LoadRecords: the records decoded are applied before the error
\* of json.Unmarshal is looked at
LoadRecordsApplyFirst(st, data) ==
    LET u == Unmarshal(data)
    IN  [store |-> LoadLoop(st, u.metrics, 1), err |-> u.err]

\* LoadFromFile, lines 256-274: decode, return the error, else apply
LoadRecords(st, data) ==
    LET u == Unmarshal(data) IN
    IF u.err
      THEN [store |-> st, err |-> TRUE]
      ELSE [store |-> LoadLoop(st, u.metrics, 1), err |-> FALSE]

\* mutant of LoadFromFile: every error of os.ReadFile is returned, and a
\* store that found no file starts empty
LoadFromFileMissingIsError(st, file, fault) ==
    LET r == ReadFile(file, fault) IN
    IF r.err # ""
      THEN [store |-> IF r.err = "ErrNotExist" THEN NewMemStorage ELSE st,
            err |-> TRUE, fault |-> IF file.exists THEN fault ELSE "none"]
      ELSE LET l == LoadRecords(st, r.data)
           IN  [store |-> l.store, err |-> l.err, fault |-> "none"]

\* MemStorage.LoadFromFile: the store it leaves, the error it returns and
\* the fault the file system answered with
LoadFromFile(st, file, fault) ==
    LET r == ReadFile(file, fault) IN
    IF r.err = "ErrNotExist"
      THEN [store |-> st, err |-> FALSE, fault |-> "none"]
      ELSE IF r.err # ""
        THEN [store |-> st, err |-> TRUE, fault |-> fault]
        ELSE LET l == LoadRecords(st, r.data)
             IN  [store |-> l.store, err |-> l.err, fault |-> "none"]

(***************************************************************************)
(* SpecFile: one goroutine that writes to the store, saves it, loads it    *)
(* and starts anew with a fresh store, over a file system that can fail.   *)
(* The file found at the start was left by an earlier run or by somebody   *)
(* else.                                                                   *)
(***************************************************************************)
ForeignFiles ==
    { NoFile,
      File(<<>>),
      File(<<Tok("junk")>>),
      File(<<ObjectTok(Metrics("a", "gauge", Ptr(2), Nil))>>),
      File(<<Tok("[")>>
             \o <<ObjectTok(Metrics("a", "gauge", Ptr(2), Nil)),
                  BadObjectTok(Metrics("b", "counter", Nil, Nil))>>
             \o <<Tok("]")>>),
      File(<<Tok("[")>>
             \o <<ObjectTok(Metrics("b", "counter", Nil, Ptr(1))),
                  ObjectTok(Metrics("a", "gauge", Ptr(2), Nil)),
                  ObjectTok(Metrics("a", "counter", Nil, Nil)),
                  ObjectTok(Metrics("b", "histogram", Ptr(1), Ptr(1))),
                  ObjectTok(Metrics("b", "counter", Nil, Ptr(-1)))>>
             \o <<Tok("]")>>) }

\* the longest text SaveToFile writes: a record per gauge and per counter
MaxText == 2 * Cardinality(Names) + 2

\* s.UpdateGauge(ctx, name, value)
FileUpdateGauge ==
    /\ fcall = <<>>
    /\ \E name \in Names, value \in FloatVals :
         /\ gauges' = UpdateGauge(store, name, value).gauges
         /\ counters' = UpdateGauge(store, name, value).counters
    /\ lastSave' = <<>>
    /\ UNCHANGED <<disk, fcall, handlerVars, pointVars, concVars,
                   notifyVars, aliasVars, ioVars, raceVars, restVars>>

\* s.UpdateCounter(ctx, "b", value)
FileUpdateCounter ==
    /\ fcall = <<>>
    /\ \E value \in Deltas :
         /\ gauges' = UpdateCounter(store, "b", value).gauges
         /\ counters' = UpdateCounter(store, "b", value).counters
    /\ lastSave' = <<>>
    /\ UNCHANGED <<disk, fcall, handlerVars, pointVars, concVars,
                   notifyVars, aliasVars, ioVars, raceVars, restVars>>

\* the process starts anew: s := NewMemStorage()
FreshStore ==
    /\ fcall = <<>>
    /\ store # NewMemStorage
    /\ gauges' = NewMemStorage.gauges
    /\ counters' = NewMemStorage.counters
    /\ UNCHANGED <<fileVars, handlerVars, pointVars, concVars,
                   notifyVars, aliasVars, ioVars, raceVars, restVars>>

\* err := s.SaveToFile(filename)
CallSaveToFile ==
    /\ fcall = <<>>
    /\ \E gorder \in RangeOrders(gauges), corder \in RangeOrders(counters),
          fault \in WriteFaults, k \in 0 .. MaxText :
         LET data == MarshalIndent(SaveMetrics(store, gorder, corder)).data
             r == SaveToFile(store, disk, gorder, corder, fault, k)
         IN  /\ IF fault = "write" THEN k < Len(data) ELSE k = 0
             /\ disk' = r.disk
             /\ fcall' = <<[op |-> "SaveToFile", pre |-> store, file |-> disk,
                            err |-> r.err, fault |-> r.fault]>>
             /\ lastSave' = IF r.fault = "none" THEN <<store>> ELSE <<>>
    /\ UNCHANGED <<gauges, counters, handlerVars, pointVars, concVars,
                   notifyVars, aliasVars, ioVars, raceVars, restVars>>

\* err := s.LoadFromFile(filename)
CallLoadFromFile ==
    /\ fcall = <<>>
    /\ \E fault \in ReadFaults :
         LET r == LoadFromFile(store, disk, fault)
         IN  /\ gauges' = r.store.gauges
             /\ counters' = r.store.counters
             /\ fcall' = <<[op |-> "LoadFromFile", pre |-> store, file |-> disk,
                            err |-> r.err, fault |-> r.fault]>>
    /\ UNCHANGED <<disk, lastSave, handlerVars, pointVars, concVars,
                   notifyVars, aliasVars, ioVars, raceVars, restVars>>

\* SaveToFile or LoadFromFile has returned to its caller
FileReturn ==
    /\ fcall # <<>>
    /\ fcall' = <<>>
    /\ UNCHANGED <<gauges, counters, disk, lastSave, handlerVars, pointVars,
                   concVars, notifyVars, aliasVars, ioVars, raceVars, restVars>>

InitFile ==
    /\ InitStorage
    /\ storageKind = "MemStorage"
    /\ aud = NilAuditor
    /\ disk \in ForeignFiles

NextFile ==
    \/ FileUpdateGauge
    \/ FileUpdateCounter
    \/ FreshStore
    \/ CallSaveToFile
    \/ CallLoadFromFile
    \/ FileReturn

SpecFile == InitFile /\ [][NextFile]_vars

Saved == fcall # <<>> /\ fcall[1].op = "SaveToFile"
Loaded == fcall # <<>> /\ fcall[1].op = "LoadFromFile"

\* C13: SaveToFile of the store S, then, with no write (and no fault of
\* the file system) in between, LoadFromFile into the same store or into a
\* fresh one: GetAllMetrics returns the gauges and counters of S.
C13_SaveLoadRoundTrip ==
    (Loaded /\ fcall[1].fault = "none" /\ lastSave # <<>>)
      => GetAllMetrics(store) = GetAllMetrics(lastSave[1])

\* the field a record of its kind carries
Field(m) == IF m.MType = "gauge" THEN m.Value ELSE m.Delta

\* the places of the records that give the metric name of kind mtype a value
Giving(metrics, mtype, name) ==
    { i \in 1 .. Len(metrics) :
        metrics[i].MType = mtype /\ metrics[i].ID = name /\ Field(metrics[i]) # Nil }

Last(S) == CHOOSE i \in S : \A j \in S : j <= i

\* the map of kind mtype after a load of the records metrics over the map
\* before: the file's value (its last one) for a name the file gives a
\* value, the entry before, or none, for every other name
Replaced(before, metrics, mtype) ==
    LET named == { n \in Names : Giving(metrics, mtype, n) # {} }
    IN  [n \in DOMAIN before \cup named |->
           IF n \in named
             THEN Deref(Field(metrics[Last(Giving(metrics, mtype, n))]))
             ELSE before[n]]

\* C14: a LoadFromFile that returns nil has replaced, not added to: a gauge
\* or counter to which the file gives a value holds the file's value
\* whatever it held, every other gauge and counter is as it was, present or
\* absent, and a second load of the file changes nothing more.
C14_LoadReplaces ==
    (Loaded /\ ~fcall[1].err /\ fcall[1].file.exists)
      => LET metrics == Unmarshal(fcall[1].file.data).metrics IN
           /\ gauges = Replaced(fcall[1].pre.gauges, metrics, "gauge")
           /\ counters = Replaced(fcall[1].pre.counters, metrics, "counter")
           /\ \A fault \in ReadFaults : LoadFromFile(store, disk, fault).store = store

C14_Witness ==
    /\ Loaded /\ ~fcall[1].err /\ fcall[1].file.exists
    /\ "b" \in DOMAIN fcall[1].pre.counters
    /\ fcall[1].pre.counters["b"] = 1
    /\ counters["b"] = -1
    /\ "a" \in DOMAIN fcall[1].pre.gauges
    /\ gauges["a"] # fcall[1].pre.gauges["a"]
    /\ "b" \in DOMAIN gauges
    /\ Giving(Unmarshal(fcall[1].file.data).metrics, "gauge", "b") = {}

\* C15: LoadFromFile of a path at which there is no file returns nil and
\* leaves every gauge and counter as it was.
C15_MissingFileIsNoError ==
    (Loaded /\ ~fcall[1].file.exists)
      => /\ ~fcall[1].err
         /\ store = fcall[1].pre
         /\ disk = NoFile

C15_Witness ==
    /\ Loaded /\ ~fcall[1].file.exists
    /\ ~fcall[1].err
    /\ gauges # EmptyMap /\ counters # EmptyMap

\* the text is a list of metric records that json decodes: null, or [ ]
\* around objects whose fields are of the types of models.Metrics
Parseable(data) ==
    \/ data = <<Tok("null")>>
    \/ /\ Len(data) >= 2
       /\ data[1].t = "[" /\ data[Len(data)].t = "]"
       /\ \A i \in 2 .. Len(data) - 1 : data[i].t = "{}"

\* C16: LoadFromFile of a file whose text is no list of metric records (an
\* empty or cut file, bytes that are no JSON, a JSON value that is no array,
\* a field of the wrong type) returns an error and leaves every gauge and
\* counter as it was.
C16_MalformedFileRejected ==
    (Loaded /\ fcall[1].file.exists /\ ~Parseable(fcall[1].file.data))
      => /\ fcall[1].err
         /\ store = fcall[1].pre

C16_Witness ==
    /\ Loaded /\ fcall[1].file.exists /\ fcall[1].fault = "none"
    /\ Len(fcall[1].file.data) = 4
    /\ fcall[1].file.data[2].t = "{}" /\ fcall[1].file.data[3].t = "{!}"
    /\ fcall[1].file.data[2].m.ID \in DOMAIN gauges
    /\ gauges[fcall[1].file.data[2].m.ID] # Deref(fcall[1].file.data[2].m.Value)
    /\ fcall[1].err

\* the files a SaveToFile of the store st that goes through leaves
CompleteSaves(st) ==
    { File(MarshalIndent(SaveMetrics(st, gorder, corder)).data) :
        gorder \in RangeOrders(st.gauges), corder \in RangeOrders(st.counters) }

\* C19: a SaveToFile that returns an error has left at its path the whole
\* file that was there or the whole new text, never an empty or cut file.
C19_FailedSaveKeepsSnapshot ==
    (Saved /\ fcall[1].err)
      => \/ disk = fcall[1].file
         \/ disk \in CompleteSaves(fcall[1].pre)

(***************************************************************************)
(* SpecIO: SaveToFile and LoadFromFile step by step, among goroutines that *)
(* call UpdateGauge and UpdateCounter. The file system does not fail here. *)
(* A goroutine is inside os.WriteFile while it stands at                   *)
(* "SaveToFile.WriteFile" and inside os.ReadFile while it stands at        *)
(* "LoadFromFile.ReadFile".                                                *)
(***************************************************************************)

\* SaveToFile: s.mu.RLock()
SaveToFileRLock(t) ==
    /\ pc[t] = "idle"
    /\ CanRLock
    /\ mu' = [mu EXCEPT !.readers = @ \cup {t}]
    /\ Goto(t, "SaveToFile.marshal")
    /\ UNCHANGED <<gauges, counters, disk, local, iobuf, handlerVars, pointVars, notifyVars, aliasVars,
                   fcall, lastSave, raceVars, restVars>>

\* SaveToFile: the two loops and json.MarshalIndent
SaveToFileMarshal(t) ==
    /\ pc[t] = "SaveToFile.marshal"
    /\ \E gorder \in RangeOrders(gauges), corder \in RangeOrders(counters) :
         LET j == MarshalIndent(SaveMetrics(store, gorder, corder)) IN
           IF j.err
             THEN /\ Goto(t, "SaveToFile.return")
                  /\ UNCHANGED iobuf
             ELSE /\ Goto(t, "SaveToFile.WriteFile")
                  /\ iobuf' = [iobuf EXCEPT ![t] = j.data]
    /\ UNCHANGED <<gauges, counters, disk, mu, local, handlerVars, pointVars, notifyVars, aliasVars,
                   fcall, lastSave, raceVars, restVars>>

\* SaveToFile: os.WriteFile(filename, data, 0666) returns
SaveToFileWriteFile(t) ==
    /\ pc[t] = "SaveToFile.WriteFile"
    /\ disk' = WriteFile(disk, iobuf[t], "none", 0).disk
    /\ Goto(t, "SaveToFile.return")
    /\ UNCHANGED <<gauges, counters, mu, local, iobuf, handlerVars, pointVars, notifyVars, aliasVars,
                   fcall, lastSave, raceVars, restVars>>

\* SaveToFile: return, the deferred s.mu.RUnlock()
SaveToFileRUnlock(t) ==
    /\ pc[t] = "SaveToFile.return"
    /\ mu' = [mu EXCEPT !.readers = @ \ {t}]
    /\ iobuf' = [iobuf EXCEPT ![t] = <<>>]
    /\ Goto(t, "idle")
    /\ UNCHANGED <<gauges, counters, disk, local, handlerVars, pointVars, notifyVars, aliasVars,
                   fcall, lastSave, raceVars, restVars>>

\* LoadFromFile: s.mu.Lock()
LoadFromFileLock(t) ==
    /\ pc[t] = "idle"
    /\ CanLock
    /\ mu' = [mu EXCEPT !.writer = t]
    /\ Goto(t, "LoadFromFile.ReadFile")
    /\ UNCHANGED <<gauges, counters, disk, local, iobuf, handlerVars, pointVars, notifyVars, aliasVars,
                   fcall, lastSave, raceVars, restVars>>

\* LoadFromFile: os.ReadFile(filename) returns
LoadFromFileReadFile(t) ==
    /\ pc[t] = "LoadFromFile.ReadFile"
    /\ LET r == ReadFile(disk, "none") IN
         IF r.err # ""
           THEN /\ Goto(t, "LoadFromFile.return")
                /\ UNCHANGED iobuf
           ELSE /\ Goto(t, "LoadFromFile.apply")
                /\ iobuf' = [iobuf EXCEPT ![t] = r.data]
    /\ UNCHANGED <<gauges, counters, disk, mu, local, handlerVars, pointVars, notifyVars, aliasVars,
                   fcall, lastSave, raceVars, restVars>>

\* LoadFromFile: json.Unmarshal and the loop over the records
LoadFromFileApply(t) ==
    /\ pc[t] = "LoadFromFile.apply"
    /\ gauges' = LoadRecords(store, iobuf[t]).store.gauges
    /\ counters' = LoadRecords(store, iobuf[t]).store.counters
    /\ Goto(t, "LoadFromFile.return")
    /\ UNCHANGED <<disk, mu, local, iobuf, handlerVars, pointVars, notifyVars, aliasVars,
                   fcall, lastSave, raceVars, restVars>>

\* LoadFromFile: return, the deferred s.mu.Unlock()
LoadFromFileUnlock(t) ==
    /\ pc[t] = "LoadFromFile.return"
    /\ mu' = [mu EXCEPT !.writer = NoThread]
    /\ iobuf' = [iobuf EXCEPT ![t] = <<>>]
    /\ Goto(t, "idle")
    /\ UNCHANGED <<gauges, counters, disk, local, handlerVars, pointVars, notifyVars, aliasVars,
                   fcall, lastSave, raceVars, restVars>>

InitIO ==
    /\ InitStorage
    /\ storageKind = "MemStorage"
    /\ aud = NilAuditor
    /\ disk = NoFile

NextIO ==
    \E t \in Threads :
      \/ UpdateGaugeLock(t)
      \/ UpdateGaugeWrite(t)
      \/ UpdateCounterLock(t)
      \/ UpdateCounterWrite(t)
      \/ SaveToFileRLock(t)
      \/ SaveToFileMarshal(t)
      \/ SaveToFileWriteFile(t)
      \/ SaveToFileRUnlock(t)
      \/ LoadFromFileLock(t)
      \/ LoadFromFileReadFile(t)
      \/ LoadFromFileApply(t)
      \/ LoadFromFileUnlock(t)

SpecIO == InitIO /\ [][NextIO]_vars

\* the goroutine is inside a read or a write of the file
InIO(t) == pc[t] \in {"SaveToFile.WriteFile", "LoadFromFile.ReadFile"}

\* the goroutine holds s.mu, for writing or for reading
HoldsLock(t) == mu.writer = t \/ t \in mu.readers

\* C18: a goroutine that is reading or writing the file does not hold the
\* storage lock, so that no writer to the store waits at s.mu.Lock() for a
\* read or a write of the file to end.
C18_NoIOUnderLock ==
    \A t \in Threads : InIO(t) => ~HoldsLock(t)

(***************************************************************************)
(* SpecRace: goroutines calling UpdateGauge, UpdateCounter and UpdateBatch *)
(* at the same time, MaxCalls calls in all. s.counters[name] += value is   *)
(* two steps, the read of the map and the write to it. submitted keeps,    *)
(* per counter, the sum of the deltas the store was handed and, per gauge, *)
(* the values it was handed.                                               *)
(***************************************************************************)

\* the delta d for the counter name has been handed to the store
WithDelta(sub, name, d) ==
    [sub EXCEPT !.sum = MapPut(@, name, MapGet(@, name) + d)]

\* the value v for the gauge name has been handed to the store
WithValue(sub, name, v) ==
    [sub EXCEPT !.written =
       MapPut(@, name, (IF name \in DOMAIN @ THEN @[name] ELSE {}) \cup {v})]

\* UpdateGauge: s.mu.Lock()
RaceUpdateGaugeLock(t) ==
    /\ pc[t] = "idle"
    /\ submitted.calls < MaxCalls
    /\ CanLock
    /\ mu' = [mu EXCEPT !.writer = t]
    /\ \E m \in Entries :
         /\ m.MType = "gauge" /\ m.Value # Nil
         /\ local' = [local EXCEPT ![t] = [NoLocal EXCEPT !.name = m.ID,
                                                          !.value = Deref(m.Value)]]
    /\ submitted' = [submitted EXCEPT !.calls = @ + 1]
    /\ Goto(t, "UpdateGauge.write")
    /\ UNCHANGED <<gauges, counters, loaded, handlerVars, pointVars, notifyVars, aliasVars,
                   fileVars, ioVars, restVars>>

\* UpdateGauge: s.gauges[name] = value, then the deferred s.mu.Unlock()
RaceUpdateGaugeWrite(t) ==
    /\ pc[t] = "UpdateGauge.write"
    /\ gauges' = UpdateGauge(store, local[t].name, local[t].value).gauges
    /\ counters' = UpdateGauge(store, local[t].name, local[t].value).counters
    /\ submitted' = WithValue(submitted, local[t].name, local[t].value)
    /\ mu' = [mu EXCEPT !.writer = NoThread]
    /\ local' = [local EXCEPT ![t] = NoLocal]
    /\ Goto(t, "idle")
    /\ UNCHANGED <<loaded, handlerVars, pointVars, notifyVars, aliasVars,
                   fileVars, ioVars, restVars>>

\* mutant of RaceUpdateCounterLock: s.mu.RLock() where s.mu.Lock() belongs
RaceUpdateCounterRLock(t) ==
    /\ pc[t] = "idle"
    /\ submitted.calls < MaxCalls
    /\ CanRLock
    /\ mu' = [mu EXCEPT !.readers = @ \cup {t}]
    /\ \E d \in Deltas :
         local' = [local EXCEPT ![t] = [NoLocal EXCEPT !.name = "b", !.value = d]]
    /\ submitted' = [submitted EXCEPT !.calls = @ + 1]
    /\ Goto(t, "UpdateCounter.load")
    /\ UNCHANGED <<gauges, counters, loaded, handlerVars, pointVars, notifyVars, aliasVars,
                   fileVars, ioVars, restVars>>

\* UpdateCounter: s.mu.Lock()
RaceUpdateCounterLock(t) ==
    /\ pc[t] = "idle"
    /\ submitted.calls < MaxCalls
    /\ CanLock
    /\ mu' = [mu EXCEPT !.writer = t]
    /\ \E d \in Deltas :
         local' = [local EXCEPT ![t] = [NoLocal EXCEPT !.name = "b", !.value = d]]
    /\ submitted' = [submitted EXCEPT !.calls = @ + 1]
    /\ Goto(t, "UpdateCounter.load")
    /\ UNCHANGED <<gauges, counters, loaded, handlerVars, pointVars, notifyVars, aliasVars,
                   fileVars, ioVars, restVars>>

\* UpdateCounter: the read of s.counters[name] in s.counters[name] += value
RaceUpdateCounterLoad(t) ==
    /\ pc[t] = "UpdateCounter.load"
    /\ loaded' = [loaded EXCEPT ![t] = MapGet(counters, local[t].name)]
    /\ Goto(t, "UpdateCounter.store")
    /\ UNCHANGED <<gauges, counters, mu, local, submitted, handlerVars, pointVars, notifyVars, aliasVars,
                   fileVars, ioVars, restVars>>

\* UpdateCounter: the write of s.counters[name] += value, then the deferred
\* s.mu.Unlock()
RaceUpdateCounterStore(t) ==
    /\ pc[t] = "UpdateCounter.store"
    /\ counters' = MapPut(counters, local[t].name, Wrap(loaded[t] + local[t].value))
    /\ submitted' = WithDelta(submitted, local[t].name, local[t].value)
    /\ mu' = [mu EXCEPT !.writer = NoThread]
    /\ local' = [local EXCEPT ![t] = NoLocal]
    /\ loaded' = [loaded EXCEPT ![t] = 0]
    /\ Goto(t, "idle")
    /\ UNCHANGED <<gauges, handlerVars, pointVars, notifyVars, aliasVars,
                   fileVars, ioVars, restVars>>

\* UpdateBatch: s.mu.Lock()
RaceUpdateBatchLock(t) ==
    /\ pc[t] = "idle"
    /\ submitted.calls < MaxCalls
    /\ CanLock
    /\ mu' = [mu EXCEPT !.writer = t]
    /\ \E batch \in Batches :
         local' = [local EXCEPT ![t] = [NoLocal EXCEPT !.batch = batch, !.i = 1]]
    /\ submitted' = [submitted EXCEPT !.calls = @ + 1]
    /\ Goto(t, "UpdateBatch.loop")
    /\ UNCHANGED <<gauges, counters, loaded, handlerVars, pointVars, notifyVars, aliasVars,
                   fileVars, ioVars, restVars>>

\* UpdateBatch: an iteration for a counter with its delta, the read of
\* s.counters[met.ID] in s.counters[met.ID] += *met.Delta
RaceUpdateBatchLoad(t) ==
    /\ pc[t] = "UpdateBatch.loop"
    /\ local[t].i <= Len(local[t].batch)
    /\ LET met == local[t].batch[local[t].i] IN
         /\ met.MType = "counter" /\ met.Delta # Nil
         /\ loaded' = [loaded EXCEPT ![t] = MapGet(counters, met.ID)]
    /\ Goto(t, "UpdateBatch.store")
    /\ UNCHANGED <<gauges, counters, mu, local, submitted, handlerVars, pointVars, notifyVars, aliasVars,
                   fileVars, ioVars, restVars>>

\* UpdateBatch: the write of s.counters[met.ID] += *met.Delta
RaceUpdateBatchStore(t) ==
    /\ pc[t] = "UpdateBatch.store"
    /\ LET met == local[t].batch[local[t].i] IN
         /\ counters' = MapPut(counters, met.ID, Wrap(loaded[t] + Deref(met.Delta)))
         /\ submitted' = WithDelta(submitted, met.ID, Deref(met.Delta))
    /\ local' = [local EXCEPT ![t].i = @ + 1]
    /\ loaded' = [loaded EXCEPT ![t] = 0]
    /\ Goto(t, "UpdateBatch.loop")
    /\ UNCHANGED <<gauges, mu, handlerVars, pointVars, notifyVars, aliasVars,
                   fileVars, ioVars, restVars>>

\* UpdateBatch: an iteration for any other entry, a gauge written or an
\* entry passed over
RaceUpdateBatchIterate(t) ==
    /\ pc[t] = "UpdateBatch.loop"
    /\ local[t].i <= Len(local[t].batch)
    /\ LET met == local[t].batch[local[t].i] IN
         /\ ~(met.MType = "counter" /\ met.Delta # Nil)
         /\ gauges' = UpdateBatchStep(store, met).gauges
         /\ counters' = UpdateBatchStep(store, met).counters
         /\ submitted' = IF met.MType = "gauge" /\ met.Value # Nil
                            THEN WithValue(submitted, met.ID, Deref(met.Value))
                            ELSE submitted
    /\ local' = [local EXCEPT ![t].i = @ + 1]
    /\ UNCHANGED <<mu, pc, loaded, handlerVars, pointVars, notifyVars, aliasVars,
                   fileVars, ioVars, restVars>>

\* UpdateBatch: return nil, the deferred s.mu.Unlock()
RaceUpdateBatchUnlock(t) ==
    /\ pc[t] = "UpdateBatch.loop"
    /\ local[t].i > Len(local[t].batch)
    /\ mu' = [mu EXCEPT !.writer = NoThread]
    /\ local' = [local EXCEPT ![t] = NoLocal]
    /\ Goto(t, "idle")
    /\ UNCHANGED <<gauges, counters, loaded, submitted, handlerVars, pointVars, notifyVars, aliasVars,
                   fileVars, ioVars, restVars>>

InitRace ==
    /\ InitStorage
    /\ storageKind = "MemStorage"
    /\ aud = NilAuditor
    /\ disk = NoFile

NextRace ==
    \E t \in Threads :
      \/ RaceUpdateGaugeLock(t)
      \/ RaceUpdateGaugeWrite(t)
      \/ RaceUpdateCounterLock(t)
      \/ RaceUpdateCounterLoad(t)
      \/ RaceUpdateCounterStore(t)
      \/ RaceUpdateBatchLock(t)
      \/ RaceUpdateBatchLoad(t)
      \/ RaceUpdateBatchStore(t)
      \/ RaceUpdateBatchIterate(t)
      \/ RaceUpdateBatchUnlock(t)

SpecRace == InitRace /\ [][NextRace]_vars

\* every call has returned
AllReturned == \A t \in Threads : pc[t] = "idle"

\* each gauge holds a value handed to the store for it, and no other gauge
\* is there
GaugesAreWritten ==
    /\ DOMAIN gauges = DOMAIN submitted.written
    /\ \A n \in DOMAIN gauges : gauges[n] \in submitted.written[n]

\* C20 (amended): once all concurrent calls of UpdateCounter, UpdateGauge
\* and UpdateBatch have returned, no update is lost: each counter holds the
\* sum of all deltas handed to the store for it, by point calls and by valid
\* batch entries, wrapped into the range of int64, and each gauge holds the
\* value of one of the calls that wrote it.
C20_NoLostUpdate ==
    AllReturned
      => /\ DOMAIN counters = DOMAIN submitted.sum
         /\ \A n \in DOMAIN counters : counters[n] = Wrap(submitted.sum[n])
         /\ GaugesAreWritten

C20_Witness ==
    /\ AllReturned
    /\ submitted.calls = 3
    /\ submitted.sum = [n \in {"b"} |-> 3]
    /\ submitted.written = [n \in {"a"} |-> {1, 2}]
    /\ counters["b"] = Wrap(3)

\* C20 as stated: each counter holds the exact sum of the deltas.
C20_CounterIsExactSum ==
    AllReturned
      => /\ DOMAIN counters = DOMAIN submitted.sum
         /\ \A n \in DOMAIN counters : counters[n] = submitted.sum[n]
         /\ GaugesAreWritten


(***************************************************************************)
(* SpecPeriodic: PeriodicStore.  The ticker's channel holds one tick; a    *)
(* tick that fires while one is waiting is dropped.  The loop takes a tick *)
(* and calls SaveToFile, whose error it assigns to the blank identifier.   *)
(* periodic.last and periodic.prev are the outcomes of the last two saves. *)
(***************************************************************************)

\* the runtime sends on ticker.C after each interval
TickerFire ==
    /\ periodic' = [periodic EXCEPT !.tick = TRUE]
    /\ UNCHANGED <<gauges, counters, handlerVars, pointVars, concVars,
                   notifyVars, aliasVars, fileVars, ioVars, raceVars,
                   sinkVars, kindVars, httpVars>>

\* for range ticker.C: one tick is received
PeriodicStoreRange ==
    /\ periodic.pc = "range"
    /\ periodic.tick
    /\ periodic' = [periodic EXCEPT !.pc = "SaveToFile", !.tick = FALSE]
    /\ UNCHANGED <<gauges, counters, handlerVars, pointVars, concVars,
                   notifyVars, aliasVars, fileVars, ioVars, raceVars,
                   sinkVars, kindVars, httpVars>>

\* the loop with  if err := s.SaveToFile(filename); err != nil { return }
PeriodicStoreSaveReturnsOnError ==
    /\ periodic.pc = "SaveToFile"
    /\ \E gorder \in RangeOrders(gauges), corder \in RangeOrders(counters),
          fault \in WriteFaults, k \in 0 .. MaxText :
         LET data == MarshalIndent(SaveMetrics(store, gorder, corder)).data
             r == SaveToFile(store, disk, gorder, corder, fault, k)
         IN  /\ IF fault = "write" THEN k < Len(data) ELSE k = 0
             /\ disk' = r.disk
             /\ periodic' =
                  [periodic EXCEPT
                     !.pc = IF r.err THEN "returned" ELSE "range",
                     !.last = IF r.err THEN "failed" ELSE "saved",
                     !.prev = periodic.last]
    /\ UNCHANGED <<gauges, counters, fcall, lastSave, handlerVars, pointVars,
                   concVars, notifyVars, aliasVars, ioVars, raceVars,
                   sinkVars, kindVars, httpVars>>

\* _ = s.SaveToFile(filename), and back to the head of the loop
PeriodicStoreSave ==
    /\ periodic.pc = "SaveToFile"
    /\ \E gorder \in RangeOrders(gauges), corder \in RangeOrders(counters),
          fault \in WriteFaults, k \in 0 .. MaxText :
         LET data == MarshalIndent(SaveMetrics(store, gorder, corder)).data
             r == SaveToFile(store, disk, gorder, corder, fault, k)
         IN  /\ IF fault = "write" THEN k < Len(data) ELSE k = 0
             /\ disk' = r.disk
             /\ periodic' =
                  [periodic EXCEPT
                     !.pc = "range",
                     !.last = IF r.err THEN "failed" ELSE "saved",
                     !.prev = periodic.last]
    /\ UNCHANGED <<gauges, counters, fcall, lastSave, handlerVars, pointVars,
                   concVars, notifyVars, aliasVars, ioVars, raceVars,
                   sinkVars, kindVars, httpVars>>

\* s.UpdateGauge(ctx, "a", value), by a request handler
PeriodicUpdateGauge ==
    /\ \E value \in FloatVals :
         /\ gauges' = UpdateGauge(store, "a", value).gauges
         /\ counters' = UpdateGauge(store, "a", value).counters
    /\ UNCHANGED <<periodicVars, fileVars, handlerVars, pointVars, concVars,
                   notifyVars, aliasVars, ioVars, raceVars,
                   sinkVars, kindVars, httpVars>>

InitPeriodic ==
    /\ InitStorage
    /\ storageKind = "MemStorage"
    /\ aud = NilAuditor
    /\ disk = NoFile

NextPeriodic ==
    \/ TickerFire
    \/ PeriodicStoreRange
    \/ PeriodicStoreSave
    \/ PeriodicUpdateGauge

\* the ticker keeps firing and the goroutine of PeriodicStore keeps being
\* scheduled; a call of SaveToFile returns
SpecPeriodic ==
    /\ InitPeriodic
    /\ [][NextPeriodic]_vars
    /\ WF_vars(TickerFire)
    /\ WF_vars(PeriodicStoreRange)
    /\ WF_vars(PeriodicStoreSave)

SaveFailed == periodic.pc = "range" /\ periodic.last = "failed"
SaveAttempted == periodic.pc = "SaveToFile"

\* C21: PeriodicStore never returns: it is always either waiting for a tick
\* or inside SaveToFile; a tick that is waiting leads to a call of
\* SaveToFile; and after a save that failed the loop goes on to the next tick
\* and calls SaveToFile again.
C21_PeriodicStoreKeepsRunning ==
    /\ [](periodic.pc \in {"range", "SaveToFile"})
    /\ (periodic.tick ~> SaveAttempted)
    /\ (SaveFailed ~> SaveAttempted)

\* a save failed, the one at the next tick was made and succeeded, and the
\* loop waits for a tick again
C21_Witness ==
    /\ periodic.pc = "range"
    /\ periodic.prev = "failed"
    /\ periodic.last = "saved"


(***************************************************************************)
(* SpecSink: audit.FileSink.  Goroutines call Send on one sink.  The file  *)
(* at s.path is the sequence of the pieces of text written to it.  The     *)
(* text of an event is two pieces, so that a write(2) can stop between     *)
(* them: os.File.Write calls write(2) until all bytes are out or one call  *)
(* fails.  sending[t] is the call of goroutine t: the event, its bytes,    *)
(* how many pieces are in the file, and the error so far.                  *)
(***************************************************************************)
SinkEvents ==
    { [TS |-> now, Metrics |-> <<n>>, IPAddress |-> "192.0.2.55"] :
        n \in Names, now \in Clock }

Piece(b, ev) == [b |-> b, ev |-> ev]
Newline == Piece("\n", NoEvent)

\* json.Marshal(ev): the object of the three fields of ev, never an error
Marshal(ev) == <<Piece("{ts,metrics", ev), Piece("ip_address}", ev)>>

OpenFaults == {"none", "open"}

\* the calls of Send made so far
SendsBegun == Len(sendLog) + Cardinality({ t \in Threads : sending[t] # <<>> })

\* b, err := json.Marshal(ev)
FileSinkSendMarshal(t) ==
    /\ pc[t] = "idle"
    /\ SendsBegun < MaxCalls
    /\ \E ev \in SinkEvents :
         sending' = [sending EXCEPT
                       ![t] = <<[ev |-> ev, b |-> Marshal(ev), n |-> 0,
                                 err |-> FALSE]>>]
    /\ pc' = [pc EXCEPT ![t] = "Send.Lock"]
    /\ UNCHANGED <<gauges, counters, mu, local, sinkMu, auditLog, sendLog,
                   handlerVars, pointVars, notifyVars, aliasVars, fileVars,
                   ioVars, raceVars, periodicVars, kindVars, httpVars>>

\* s.mu.Lock() left out: the goroutine goes on whoever holds the mutex
FileSinkSendNoLock(t) ==
    /\ pc[t] = "Send.Lock"
    /\ sinkMu' = t
    /\ pc' = [pc EXCEPT ![t] = "Send.OpenFile"]
    /\ UNCHANGED <<gauges, counters, mu, local, auditLog, sending, sendLog,
                   handlerVars, pointVars, notifyVars, aliasVars, fileVars,
                   ioVars, raceVars, periodicVars, kindVars, httpVars>>

\* s.mu.Lock()
FileSinkSendLock(t) ==
    /\ pc[t] = "Send.Lock"
    /\ sinkMu = NoThread
    /\ sinkMu' = t
    /\ pc' = [pc EXCEPT ![t] = "Send.OpenFile"]
    /\ UNCHANGED <<gauges, counters, mu, local, auditLog, sending, sendLog,
                   handlerVars, pointVars, notifyVars, aliasVars, fileVars,
                   ioVars, raceVars, periodicVars, kindVars, httpVars>>

\* f, err := os.OpenFile(s.path, O_CREATE|O_WRONLY|O_APPEND, 0o644)
FileSinkSendOpenFile(t) ==
    /\ pc[t] = "Send.OpenFile"
    /\ \E fault \in OpenFaults :
         IF fault = "open"
           THEN /\ sending' = [sending EXCEPT ![t][1].err = TRUE]
                /\ pc' = [pc EXCEPT ![t] = "Send.return"]
           ELSE /\ sending' = sending
                /\ pc' = [pc EXCEPT ![t] = "Send.Write"]
    /\ UNCHANGED <<gauges, counters, mu, local, sinkMu, auditLog, sendLog,
                   handlerVars, pointVars, notifyVars, aliasVars, fileVars,
                   ioVars, raceVars, periodicVars, kindVars, httpVars>>

\* _, err = f.Write(append(b, '\n')): one write(2) of the bytes not yet out.
\* With O_APPEND it puts j pieces at the end of the file, all that is left or
\* fewer; or it fails and puts none.
FileSinkSendWrite(t) ==
    /\ pc[t] = "Send.Write"
    /\ LET c == sending[t][1]
           line == c.b \o <<Newline>>
       IN  \/ \E j \in 1 .. (Len(line) - c.n) :
                /\ auditLog' = auditLog \o SubSeq(line, c.n + 1, c.n + j)
                /\ sending' = [sending EXCEPT ![t][1].n = c.n + j]
                /\ pc' = [pc EXCEPT
                            ![t] = IF c.n + j = Len(line) THEN "Send.return"
                                                           ELSE "Send.Write"]
           \/ /\ auditLog' = auditLog
              /\ sending' = [sending EXCEPT ![t][1].err = TRUE]
              /\ pc' = [pc EXCEPT ![t] = "Send.return"]
    /\ UNCHANGED <<gauges, counters, mu, local, sinkMu, sendLog,
                   handlerVars, pointVars, notifyVars, aliasVars, fileVars,
                   ioVars, raceVars, periodicVars, kindVars, httpVars>>

\* return err, with the deferred f.Close() and s.mu.Unlock()
FileSinkSendUnlock(t) ==
    /\ pc[t] = "Send.return"
    /\ sinkMu' = NoThread
    /\ sendLog' = Append(sendLog, [ev |-> sending[t][1].ev,
                                   n |-> sending[t][1].n,
                                   err |-> sending[t][1].err])
    /\ sending' = [sending EXCEPT ![t] = <<>>]
    /\ pc' = [pc EXCEPT ![t] = "idle"]
    /\ UNCHANGED <<gauges, counters, mu, local, auditLog,
                   handlerVars, pointVars, notifyVars, aliasVars, fileVars,
                   ioVars, raceVars, periodicVars, kindVars, httpVars>>

InitSink ==
    /\ InitStorage
    /\ storageKind = "MemStorage"
    /\ aud = NilAuditor
    /\ disk = NoFile

NextSink ==
    \E t \in Threads :
      \/ FileSinkSendMarshal(t)
      \/ FileSinkSendLock(t)
      \/ FileSinkSendOpenFile(t)
      \/ FileSinkSendWrite(t)
      \/ FileSinkSendUnlock(t)

SpecSink == InitSink /\ [][NextSink]_vars

\* the line of event ev
Line(ev) == Marshal(ev) \o <<Newline>>

\* what the returned calls log[1], log[2], ... put into the file, one call
\* after the other
RECURSIVE Written(_)
Written(log) ==
    IF log = <<>>
      THEN <<>>
      ELSE SubSeq(Line(Head(log).ev), 1, Head(log).n) \o Written(Tail(log))

\* what the call that holds the mutex has put into the file so far
WrittenByHolder ==
    IF sinkMu # NoThread /\ sending[sinkMu] # <<>>
      THEN SubSeq(Line(sending[sinkMu][1].ev), 1, sending[sinkMu][1].n)
      ELSE <<>>

\* the lines of the calls of log that returned nil
RECURSIVE LinesOfSuccessful(_)
LinesOfSuccessful(log) ==
    IF log = <<>>
      THEN <<>>
      ELSE (IF Head(log).err THEN <<>> ELSE Line(Head(log).ev))
             \o LinesOfSuccessful(Tail(log))

\* no write has stopped part-way and then failed
NoTornWrite ==
    \A i \in 1 .. Len(sendLog) :
      sendLog[i].n \in {0, Len(Line(sendLog[i].ev))}

Handlers == {"t1", "t2"}

\* the batches of the requests: one gauge each
LockBatches == { <<m>> : m \in { e \in Entries : e.MType = "gauge" /\ e.Value # Nil } }

\* the requests taken up so far
RequestsBegun ==
    Len(sendLog) + Cardinality({ t \in Threads : pc[t] # "idle" /\ t \in Handlers })

\* UpdatesHandler: bu.UpdateBatch(r.Context(), batch) takes s.mu.Lock()
HandlerUpdateBatchLock(t) ==
    /\ pc[t] = "idle"
    /\ RequestsBegun < MaxCalls
    /\ CanLock
    /\ mu' = [mu EXCEPT !.writer = t]
    /\ \E batch \in LockBatches :
         local' = [local EXCEPT ![t] = [NoLocal EXCEPT !.batch = batch, !.i = 1]]
    /\ Goto(t, "UpdateBatch.loop")
    /\ UNCHANGED <<gauges, counters, sinkVars,
                   handlerVars, pointVars, notifyVars, aliasVars, fileVars,
                   ioVars, raceVars, periodicVars, kindVars, httpVars>>

\* UpdateBatch returns to the handler and s.mu stays locked
HandlerUpdateBatchKeepsLock(t) ==
    /\ pc[t] = "UpdateBatch.loop"
    /\ local[t].i > Len(local[t].batch)
    /\ Goto(t, "UpdatesHandler.audit")
    /\ UNCHANGED <<gauges, counters, mu, local, sinkVars,
                   handlerVars, pointVars, notifyVars, aliasVars, fileVars,
                   ioVars, raceVars, periodicVars, kindVars, httpVars>>

\* UpdateBatch: return nil, the deferred s.mu.Unlock(); back in the handler
HandlerUpdateBatchUnlock(t) ==
    /\ pc[t] = "UpdateBatch.loop"
    /\ local[t].i > Len(local[t].batch)
    /\ mu' = [mu EXCEPT !.writer = NoThread]
    /\ Goto(t, "UpdatesHandler.audit")
    /\ UNCHANGED <<gauges, counters, local, sinkVars,
                   handlerVars, pointVars, notifyVars, aliasVars, fileVars,
                   ioVars, raceVars, periodicVars, kindVars, httpVars>>

\* UpdatesHandler: the names of the batch, aud.Notify(...), which builds the
\* event and calls s.Send(ctx, ev): b, err := json.Marshal(ev)
HandlerNotify(t) ==
    /\ pc[t] = "UpdatesHandler.audit"
    /\ \E now \in Clock :
         LET ev == [TS |-> now, Metrics |-> BatchNames(local[t].batch),
                    IPAddress |-> "192.0.2.55"]
         IN  sending' = [sending EXCEPT
                           ![t] = <<[ev |-> ev, b |-> Marshal(ev), n |-> 0,
                                     err |-> FALSE]>>]
    /\ local' = [local EXCEPT ![t] = NoLocal]
    /\ Goto(t, "Send.Lock")
    /\ UNCHANGED <<gauges, counters, mu, sinkMu, auditLog, sendLog,
                   handlerVars, pointVars, notifyVars, aliasVars, fileVars,
                   ioVars, raceVars, periodicVars, kindVars, httpVars>>

InitLocks ==
    /\ InitStorage
    /\ storageKind = "MemStorage"
    /\ aud = New(1)
    /\ disk = NoFile

\* the steps of a goroutine that serves POST /updates
HandlerStep(t) ==
    \/ HandlerUpdateBatchLock(t)
    \/ UpdateBatchIterate(t)
    \/ HandlerUpdateBatchUnlock(t)
    \/ HandlerNotify(t)
    \/ FileSinkSendLock(t)
    \/ FileSinkSendOpenFile(t)
    \/ FileSinkSendWrite(t)
    \/ FileSinkSendUnlock(t)

\* the steps of a goroutine that reads or saves
ReaderStep(t) ==
    \/ GetAllMetricsRLock(t)
    \/ GetAllMetricsCopyGauges(t)
    \/ GetAllMetricsCopyCounters(t)
    \/ GetAllMetricsRUnlock(t)
    \/ SaveToFileRLock(t)
    \/ SaveToFileMarshal(t)
    \/ SaveToFileWriteFile(t)
    \/ SaveToFileRUnlock(t)

NextLocks ==
    \/ \E t \in Handlers : HandlerStep(t)
    \/ \E t \in Threads \ Handlers : ReaderStep(t)

SpecLocks == InitLocks /\ [][NextLocks]_vars

\* the goroutine holds the mutex of the file sink
HoldsSinkLock(t) == sinkMu = t

\* the goroutine is at s.mu.Lock() of the file sink
AtSinkLock(t) == pc[t] = "Send.Lock"

\* the goroutine is inside a method of MemStorage
InStorage(t) ==
    pc[t] \in {"UpdateBatch.loop", "GetAllMetrics.gauges",
               "GetAllMetrics.counters", "GetAllMetrics.return",
               "SaveToFile.marshal", "SaveToFile.WriteFile",
               "SaveToFile.return"}

\* the goroutine waits for a lock that another goroutine holds
Blocked(t) == AtSinkLock(t) /\ sinkMu # NoThread

\* C24: no goroutine holds the storage lock and the lock of the file sink
\* together, and none takes one while it holds the other: who holds s.mu of
\* the storage is not at or past s.mu.Lock() of the sink, who holds the
\* sink's lock is not inside a method of the storage; and whenever a
\* goroutine waits for a lock, a goroutine that is not waiting can take a step.
C24_LocksNeverNested ==
    /\ \A t \in Threads :
         /\ HoldsLock(t) => ~HoldsSinkLock(t) /\ ~AtSinkLock(t)
         /\ HoldsSinkLock(t) => ~InStorage(t) /\ ~HoldsLock(t)
    /\ (\E t \in Threads : Blocked(t))
         => \E u \in Threads :
              /\ ~Blocked(u)
              /\ pc[u] # "idle"
              /\ ENABLED (HandlerStep(u) \/ ReaderStep(u))

\* after one delivery has returned, one handler writes to the audit file
\* under the sink's lock while the other applies its batch under the
\* storage lock
C24_Witness ==
    /\ pc["t1"] = "Send.Write" /\ HoldsSinkLock("t1")
    /\ pc["t2"] = "UpdateBatch.loop" /\ HoldsLock("t2")
    /\ Len(sendLog) = 1


(***************************************************************************)
(* SpecKinds: gauges and counters of the same names, written by point      *)
(* updates, by UpdateBatch and by LoadFromFile, and read by GetGauge and   *)
(* GetCounter.  wrote keeps, from the arguments of the calls alone, the    *)
(* names a call wrote as gauge and as counter, and of the last call: for   *)
(* a write the store before it, for a read what it returned.               *)
(***************************************************************************)
KindEntries ==
    { Metrics(n, "gauge", Ptr(1), Nil) : n \in Names }
      \cup { Metrics(n, "counter", Nil, Ptr(1)) : n \in Names }
      \cup { Metrics("a", "gauge", Nil, Nil),
             Metrics("b", "counter", Nil, Nil),
             Metrics("a", "histogram", Ptr(1), Ptr(1)) }

KindBatches == { <<m>> : m \in KindEntries } \cup [1 .. 2 -> KindEntries]

\* the files LoadFromFile finds: none, no JSON, and arrays of records
KindFiles ==
    ForeignFiles
      \cup { File(<<Tok("[")>> \o <<ObjectTok(m)>> \o <<Tok("]")>>) :
               m \in KindEntries }

\* the names the records of metrics give a value of kind mtype for
NamesGiven(metrics, mtype) ==
    { metrics[i].ID :
        i \in { j \in 1 .. Len(metrics) :
                  /\ metrics[j].MType = mtype
                  /\ IF mtype = "gauge" THEN metrics[j].Value # Nil
                                        ELSE metrics[j].Delta # Nil } }

WroteAfter(op, pre, g, c) ==
    [gauges |-> wrote.gauges \cup g, counters |-> wrote.counters \cup c,
     last |-> <<[op |-> op, pre |-> pre, g |-> g, c |-> c]>>, got |-> <<>>]

\* s.UpdateGauge(ctx, name, value)
KindsUpdateGauge ==
    /\ \E name \in Names, value \in GaugeVals :
         /\ gauges' = UpdateGauge(store, name, value).gauges
         /\ counters' = UpdateGauge(store, name, value).counters
         /\ wrote' = WroteAfter("UpdateGauge", store, {name}, {})
    /\ UNCHANGED <<handlerVars, pointVars, concVars, notifyVars,
                   aliasVars, fileVars, ioVars, raceVars, periodicVars,
                   sinkVars, httpVars>>

\* s.UpdateCounter(ctx, name, value)
KindsUpdateCounter ==
    /\ \E name \in Names, value \in Deltas :
         /\ gauges' = UpdateCounter(store, name, value).gauges
         /\ counters' = UpdateCounter(store, name, value).counters
         /\ wrote' = WroteAfter("UpdateCounter", store, {}, {name})
    /\ UNCHANGED <<handlerVars, pointVars, concVars, notifyVars,
                   aliasVars, fileVars, ioVars, raceVars, periodicVars,
                   sinkVars, httpVars>>

\* s.UpdateBatch(ctx, batch)
KindsUpdateBatch ==
    /\ \E batch \in KindBatches :
         /\ gauges' = UpdateBatch(store, batch).store.gauges
         /\ counters' = UpdateBatch(store, batch).store.counters
         /\ wrote' = WroteAfter("UpdateBatch", store,
                                NamesGiven(batch, "gauge"),
                                NamesGiven(batch, "counter"))
    /\ UNCHANGED <<handlerVars, pointVars, concVars, notifyVars,
                   aliasVars, fileVars, ioVars, raceVars, periodicVars,
                   sinkVars, httpVars>>

\* s.LoadFromFile(filename), over the file found at filename
KindsLoadFromFile ==
    /\ \E file \in KindFiles :
         LET r == LoadFromFile(store, file, "none")
             read == file.exists /\ ~r.err
             metrics == IF read THEN Unmarshal(file.data).metrics ELSE <<>>
         IN  /\ gauges' = r.store.gauges
             /\ counters' = r.store.counters
             /\ wrote' = WroteAfter("LoadFromFile", store,
                                    NamesGiven(metrics, "gauge"),
                                    NamesGiven(metrics, "counter"))
    /\ UNCHANGED <<handlerVars, pointVars, concVars, notifyVars,
                   aliasVars, fileVars, ioVars, raceVars, periodicVars,
                   sinkVars, httpVars>>

\* val, ok := s.GetGauge(ctx, name)
KindsGetGauge ==
    /\ \E name \in Names :
         wrote' = [wrote EXCEPT !.last = <<>>,
                                !.got = <<[op |-> "GetGauge", name |-> name,
                                           got |-> GetGauge(store, name)]>>]
    /\ UNCHANGED <<gauges, counters, handlerVars, pointVars, concVars, notifyVars,
                   aliasVars, fileVars, ioVars, raceVars, periodicVars,
                   sinkVars, httpVars>>

\* val, ok := s.GetCounter(ctx, name)
KindsGetCounter ==
    /\ \E name \in Names :
         wrote' = [wrote EXCEPT !.last = <<>>,
                                !.got = <<[op |-> "GetCounter", name |-> name,
                                           got |-> GetCounter(store, name)]>>]
    /\ UNCHANGED <<gauges, counters, handlerVars, pointVars, concVars, notifyVars,
                   aliasVars, fileVars, ioVars, raceVars, periodicVars,
                   sinkVars, httpVars>>

InitKinds ==
    /\ InitStorage
    /\ storageKind = "MemStorage"
    /\ aud = NilAuditor
    /\ disk = NoFile

NextKinds ==
    \/ KindsUpdateGauge
    \/ KindsUpdateCounter
    \/ KindsUpdateBatch
    \/ KindsLoadFromFile
    \/ KindsGetGauge
    \/ KindsGetCounter

SpecKinds == InitKinds /\ [][NextKinds]_vars

\* C25: the gauges and the counters are two sets of names that do not
\* touch: a call that wrote no counter of a name leaves the counter of that
\* name as it was, absent or with its value, and likewise for gauges; and
\* GetGauge (GetCounter) finds a name exactly if a point update, a valid
\* batch entry or a loaded record wrote a gauge (counter) of that name.
C25_KindsIndependent ==
    /\ \A n \in Names :
         /\ GetGauge(store, n).ok <=> n \in wrote.gauges
         /\ GetCounter(store, n).ok <=> n \in wrote.counters
    /\ wrote.got # <<>> =>
         wrote.got[1].got.ok
           <=> wrote.got[1].name \in (IF wrote.got[1].op = "GetGauge"
                                        THEN wrote.gauges ELSE wrote.counters)
    /\ wrote.last # <<>> =>
         \A n \in Names :
           /\ n \notin wrote.last[1].g
                => GetGauge(store, n) = GetGauge(wrote.last[1].pre, n)
           /\ n \notin wrote.last[1].c
                => GetCounter(store, n) = GetCounter(wrote.last[1].pre, n)

\* "a" was written as a gauge only and "b" as a counter only, its updates
\* have left counter "b" at zero, and GetCounter("a") has just answered not
\* found
C25_Witness ==
    /\ wrote.gauges = {"a"} /\ wrote.counters = {"b"}
    /\ store.gauges["a"] = 2 /\ store.counters["b"] = 0
    /\ wrote.got # <<>> /\ wrote.got[1].op = "GetCounter"
    /\ wrote.got[1].name = "a" /\ ~wrote.got[1].got.ok


(***************************************************************************)
(* SpecHTTP: audit.HTTPSink.  s.client.Do(req) follows redirects by itself *)
(* and gives back an error (no connection, the timeout of five seconds,    *)
(* the context cancelled, too many redirects) or the final response.  A    *)
(* final response can carry 101 or any status from 200 up; a 3xx is final  *)
(* when it is no redirect (300, 304) or names no Location.                 *)
(***************************************************************************)
FinalStatuses == {101, 200, 201, 204, 299, 300, 301, 304, 399, 400, 404, 500, 503}

\* what http.NewRequestWithContext and s.client.Do come to: the request
\* could not be built, the exchange failed, or a final response
Exchanges ==
    { [failed |-> f, status |-> 0] : f \in {"NewRequest", "Do"} }
      \cup { [failed |-> "", status |-> c] : c \in FinalStatuses }

\* mutant of HTTPSinkSend: if resp.StatusCode >= 400
HTTPSinkSendFrom400(ev, x) ==
    IF x.failed # ""
      THEN TRUE
      ELSE x.status >= StatusBadRequest

\* HTTPSink.Send: whether the error it returns is non-nil
HTTPSinkSend(ev, x) ==
    IF x.failed # ""
      THEN TRUE
      ELSE x.status >= StatusMultipleChoices

\* err := s.Send(ctx, ev)
CallHTTPSinkSend ==
    /\ \E metrics \in NameLists, now \in Clock, x \in Exchanges :
         LET ev == [TS |-> now, Metrics |-> metrics, IPAddress |-> "192.0.2.55"]
         IN  posted' = <<[ev |-> ev, x |-> x, err |-> HTTPSinkSend(ev, x)]>>
    /\ UNCHANGED <<gauges, counters, handlerVars, pointVars, concVars,
                   notifyVars, aliasVars, fileVars, ioVars, raceVars,
                   periodicVars, sinkVars, kindVars>>

InitHTTP ==
    /\ InitStorage
    /\ storageKind = "MemStorage"
    /\ aud = New(1)
    /\ disk = NoFile

NextHTTP == CallHTTPSinkSend

SpecHTTP == InitHTTP /\ [][NextHTTP]_vars

Posted == posted # <<>>
ThePost == posted[1]
RequestFailed == ThePost.x.failed # ""

\* C26: HTTPSink.Send returns an error exactly if the request failed or the
\* final response has a status of 300 or more: a 3xx, 4xx or 5xx response
\* is a failure, a 2xx response, and a final response below 200, a success.
C26_ErrorIffFailedOrFrom300 ==
    Posted =>
      /\ RequestFailed => ThePost.err
      /\ ~RequestFailed =>
           /\ ThePost.x.status \in 300 .. 599 => ThePost.err
           /\ ThePost.x.status \in 100 .. 299 => ~ThePost.err

\* a final response 304 Not Modified has been reported as an error
C26_Witness ==
    /\ Posted /\ ~RequestFailed
    /\ ThePost.x.status = 304
    /\ ThePost.err
    /\ Len(ThePost.ev.Metrics) = 2

\* C26 as stated: HTTPSink.Send returns an error exactly if the request
\* failed or the final status is outside 200..399.
C26_ErrorIffOutside2xx3xx ==
    Posted =>
      (ThePost.err <=> (RequestFailed \/ ThePost.x.status \notin 200 .. 399))

=============================================================================
